---- MODULE Spec2Model ----
(***************************************************************************)
(* Goedkoopschappen: the product search aggregator (src/src/app.py) and    *)
(* the per-source cache-or-scrape pipeline (src/src/ah_scraper.py,         *)
(* src/src/jumbo_scraper.py, src/src/plus_scraper.py).                     *)
(*                                                                         *)
(* Conventions of the model                                                *)
(*   - a Python text is a sequence of one-character strings;               *)
(*   - a Python optional value is <<>> (None) or <<v>> (the value v);      *)
(*   - money is an integer number of cents; a float result is the exact    *)
(*     rational <<numerator, denominator>>, float('inf') is <<1, 0>>;      *)
(*   - time is an integer number of hours.                                 *)
(***************************************************************************)
EXTENDS Integers, Sequences, FiniteSets, TLC

None == <<>>
Some(v) == <<v>>

Min(S) == CHOOSE x \in S : \A y \in S : x <= y

(***************************************************************************)
(* Text helpers: Python's str and re operations used by app.py             *)
(***************************************************************************)
Digit == {"0", "1", "2", "3", "4", "5", "6", "7", "8", "9"}

DigitVal(c) ==
    CASE c = "0" -> 0 [] c = "1" -> 1 [] c = "2" -> 2 [] c = "3" -> 3
      [] c = "4" -> 4 [] c = "5" -> 5 [] c = "6" -> 6 [] c = "7" -> 7
      [] c = "8" -> 8 [] c = "9" -> 9

\* str.lower() on one character
LowerChar(c) ==
    CASE c = "A" -> "a" [] c = "B" -> "b" [] c = "C" -> "c" [] c = "D" -> "d"
      [] c = "E" -> "e" [] c = "F" -> "f" [] c = "G" -> "g" [] c = "H" -> "h"
      [] c = "I" -> "i" [] c = "J" -> "j" [] c = "K" -> "k" [] c = "L" -> "l"
      [] c = "M" -> "m" [] c = "N" -> "n" [] c = "O" -> "o" [] c = "P" -> "p"
      [] c = "Q" -> "q" [] c = "R" -> "r" [] c = "S" -> "s" [] c = "T" -> "t"
      [] c = "U" -> "u" [] c = "V" -> "v" [] c = "W" -> "w" [] c = "X" -> "x"
      [] c = "Y" -> "y" [] c = "Z" -> "z" [] OTHER -> c

Lower(s) == [i \in 1..Len(s) |-> LowerChar(s[i])]

\* str.strip(): leading and trailing blanks removed
RECURSIVE Strip(_)
Strip(s) ==
    IF s = <<>> THEN s
    ELSE IF Head(s) = " " THEN Strip(Tail(s))
    ELSE IF s[Len(s)] = " " THEN Strip(SubSeq(s, 1, Len(s) - 1))
    ELSE s

\* str(x) of an optional text: str(None) is 'None'
Str(opt) == IF opt = None THEN <<"N", "o", "n", "e">> ELSE opt[1]

\* s[i:].startswith(t)
StartsAt(s, i, t) ==
    /\ i >= 1
    /\ i + Len(t) - 1 <= Len(s)
    /\ SubSeq(s, i, i + Len(t) - 1) = t

\* t in s
Contains(s, t) == \E i \in 1..Len(s) : StartsAt(s, i, t)

IsDigitAt(s, i) == i \in 1..Len(s) /\ s[i] \in Digit

\* the position after the run of digits starting at i (\d+, greedy)
RECURSIVE DigitRunEnd(_, _)
DigitRunEnd(s, i) == IF IsDigitAt(s, i) THEN DigitRunEnd(s, i + 1) ELSE i

\* the position after the blanks starting at i (\s*, greedy)
RECURSIVE SkipSpace(_, _)
SkipSpace(s, i) ==
    IF i <= Len(s) /\ s[i] = " " THEN SkipSpace(s, i + 1) ELSE i

\* the position after (\d+(?:[.,]\d+)?) starting at i
NumEnd(s, i) ==
    LET e == DigitRunEnd(s, i)
    IN  IF e <= Len(s) /\ s[e] \in {".", ","} /\ IsDigitAt(s, e + 1)
        THEN DigitRunEnd(s, e + 1)
        ELSE e

\* re.search(r'(\d+)\s*<lit>', s): group(1) of the leftmost match, or None
SearchInt(s, lit) ==
    LET m == {i \in 1..Len(s) :
                 IsDigitAt(s, i)
                 /\ StartsAt(s, SkipSpace(s, DigitRunEnd(s, i)), lit)}
    IN  IF m = {} THEN None
        ELSE Some(SubSeq(s, Min(m), DigitRunEnd(s, Min(m)) - 1))

\* re.search(r'(\d+(?:[.,]\d+)?)\s*(?:<lit1>|<lit2>)', s): group(1) or None
SearchNum(s, lits) ==
    LET m == {i \in 1..Len(s) :
                 IsDigitAt(s, i)
                 /\ \E lit \in lits : StartsAt(s, SkipSpace(s, NumEnd(s, i)), lit)}
    IN  IF m = {} THEN None
        ELSE Some(SubSeq(s, Min(m), NumEnd(s, Min(m)) - 1))

\* int(d) of a run of digits
RECURSIVE ToInt(_)
ToInt(d) ==
    IF d = <<>> THEN 0
    ELSE 10 * ToInt(SubSeq(d, 1, Len(d) - 1)) + DigitVal(d[Len(d)])

RECURSIVE Pow10(_)
Pow10(n) == IF n = 0 THEN 1 ELSE 10 * Pow10(n - 1)

\* float(g.replace(',', '.')) of a matched (\d+(?:[.,]\d+)?), as a rational
ToFloat(g) ==
    LET e == DigitRunEnd(g, 1)
    IN  IF e > Len(g) THEN <<ToInt(g), 1>>
        ELSE <<ToInt(SubSeq(g, 1, e - 1) \o SubSeq(g, e + 1, Len(g))),
               Pow10(Len(g) - e)>>

\* s.replace(' ', '')
RECURSIVE RemoveSpaces(_)
RemoveSpaces(s) ==
    IF s = <<>> THEN s
    ELSE IF Head(s) = " " THEN RemoveSpaces(Tail(s))
    ELSE <<Head(s)>> \o RemoveSpaces(Tail(s))

\* s.isdigit()
IsDigitText(s) == s # <<>> /\ \A i \in 1..Len(s) : s[i] \in Digit

(***************************************************************************)
(* Floats as rationals                                                     *)
(***************************************************************************)
Inf == <<1, 0>>

\* a <= b on rationals with denominator >= 0 (Inf is above every rational)
Leq(a, b) == a[1] * b[2] <= b[1] * a[2]

Lt(a, b) == ~Leq(b, a)

(***************************************************************************)
(* app.py: price per unit for sorting                                      *)
(***************************************************************************)
T_stuk == <<"s", "t", "u", "k">>
T_plak == <<"p", "l", "a", "k">>
T_kg   == <<"k", "g">>
T_kilo == <<"k", "i", "l", "o">>
T_g    == <<"g">>

\* The sort value of a product: a rational number of cents, or Inf.
\* product is [store, name, price, unit_size, price_per_unit_value].
calculate_price_per_unit(product) ==
    IF product.price_per_unit_value # None
    THEN <<product.price_per_unit_value[1], 1>>
    ELSE
      LET price     == product.price
          unit_size == Strip(Lower(Str(product.unit_size)))
          stuk      == SearchInt(unit_size, T_stuk)
          plak      == SearchInt(unit_size, T_plak)
          kilo      == SearchNum(unit_size, {T_kilo, T_kg})
          gram      == SearchNum(unit_size, {T_g})
          \* float(unit_size) raises ValueError on a text with inner blanks
          valueError ==
              /\ ~Contains(unit_size, T_stuk) /\ ~Contains(unit_size, T_plak)
              /\ ~Contains(unit_size, T_kg) /\ ~Contains(unit_size, T_kilo)
              /\ ~Contains(unit_size, T_g)
              /\ IsDigitText(RemoveSpaces(unit_size))
              /\ ~IsDigitText(unit_size)
          grams ==
              IF Contains(unit_size, T_kg) \/ Contains(unit_size, T_kilo)
              THEN IF kilo # None
                   THEN <<ToFloat(kilo[1])[1] * 1000, ToFloat(kilo[1])[2]>>
                   ELSE <<0, 1>>
              ELSE IF Contains(unit_size, T_g)
              THEN IF gram # None THEN ToFloat(gram[1]) ELSE <<0, 1>>
              ELSE IF IsDigitText(unit_size) THEN <<ToInt(unit_size), 1>>
              ELSE <<0, 1>>
      IN  IF Contains(unit_size, T_stuk)
          THEN IF stuk # None /\ ToInt(stuk[1]) > 0
               THEN <<price, ToInt(stuk[1])>>
               ELSE <<price, 1>>
          ELSE IF Contains(unit_size, T_plak)
          THEN IF plak # None /\ ToInt(plak[1]) > 0
               THEN <<price, ToInt(plak[1])>>
               ELSE <<price, 1>>
          ELSE IF valueError THEN Inf
          ELSE IF grams[1] > 0
          THEN <<price * 1000 * grams[2], grams[1]>>
          ELSE <<price, 1>>

(***************************************************************************)
(* State                                                                   *)
(***************************************************************************)
VARIABLES
    \* search_products (app.py): one request at a time
    spc,        \* "idle", "gather" (awaiting the tasks), "responded"
    stores,     \* data.get('stores'): the set of requested stores
    sort_by,    \* data.get('sort_by')
    results,    \* per store, the outcome of its task
    merged,     \* the list `products` before products.sort
    response,   \* the JSON response
    \* the cache directory and the get-products calls (the three scrapers)
    cache,      \* per (store, search term), the cache file
    now,        \* datetime.now(), in hours
    calls,      \* per call, where it is and what it has seen
    ncalls,     \* calls started so far
    nplanted    \* cache files changed from outside so far

VARIABLES
    \* one run of an extractor over the cards of a fetched document
    xstore,     \* the store whose extractor runs, "none" when none does
    xcards,     \* the cards not yet processed
    xout,       \* the list `products` built so far
    xstate,     \* "idle", "run", "done" (list returned) or "failed"
    \* the unit-size and price-per-unit routines applied to one input
    uin,        \* the input: a price in cents and an optional unit text
    ures,       \* what the routines returned, "none" before they ran
    \* the list routes of app.py
    grocery_list,       \* the module-level list
    selected_products,  \* the module-level dict, as a function on its keys
    reply               \* the HTTP answer to the last list request

svars == <<spc, stores, sort_by, results, merged, response>>

cvars == <<cache, now, calls, ncalls, nplanted>>

xvars == <<xstore, xcards, xout, xstate>>

uvars == <<uin, ures>>

lvars == <<grocery_list, selected_products, reply>>

\* what the search handler and the cached get-products calls leave alone
rest == <<xvars, uvars, lvars>>

(***************************************************************************)
(* app.py: search_products                                                 *)
(***************************************************************************)
\* The stores in the order in which search_products appends their tasks
StoreOrder == <<"ah", "jumbo", "plus">>

StoreNames == {StoreOrder[i] : i \in 1..Len(StoreOrder)}

SortKeys == {"price_per_unit", "price", "name"}

Pending  == [kind |-> "pending"]
NotAsked == [kind |-> "none"]
Raised   == [kind |-> "exc"]
Returned(items) == [kind |-> "list", items |-> items]

\* f"{product.get('store')}_{product.get('name')}"
product_keyNameOnly(product) == product.name

product_key(product) == product.store \o "_" \o product.name

\* tasks, in order: the outcomes of the requested stores
RECURSIVE TasksFrom(_, _, _)
TasksFrom(i, sel, res) ==
    IF i > Len(StoreOrder) THEN <<>>
    ELSE (IF StoreOrder[i] \in sel THEN <<res[StoreOrder[i]]>> ELSE <<>>)
         \o TasksFrom(i + 1, sel, res)

\* asyncio.gather without return_exceptions: the first exception propagates
gatherPropagating(tasks) ==
    IF \E i \in 1..Len(tasks) : tasks[i].kind = "exc"
    THEN [raised |-> TRUE, results |-> <<>>]
    ELSE [raised |-> FALSE, results |-> tasks]

\* asyncio.gather(*tasks, return_exceptions=True)
gather(tasks) == [raised |-> FALSE, results |-> tasks]

\* the inner loop over one result list: append the products not seen yet
RECURSIVE DedupList(_, _)
DedupList(items, acc) ==
    IF items = <<>> THEN acc
    ELSE LET product == Head(items)
             key     == product_key(product)
         IN  DedupList(Tail(items),
                 IF key \in acc.seen_products THEN acc
                 ELSE [seen_products |-> acc.seen_products \cup {key},
                       products      |-> Append(acc.products, product)])

\* the loop over results: an exception is skipped, a list is merged
RECURSIVE Combine(_, _)
Combine(rs, acc) ==
    IF rs = <<>> THEN acc
    ELSE IF Head(rs).kind = "exc" THEN Combine(Tail(rs), acc)
    ELSE Combine(Tail(rs), DedupList(Head(rs).items, acc))

\* product['price_per_unit'] = ...
WithPricePerUnit(product) ==
    [store |-> product.store, name |-> product.name, price |-> product.price,
     unit_size |-> product.unit_size,
     price_per_unit_value |-> product.price_per_unit_value,
     price_per_unit |->
        IF product.price_per_unit_value # None
        THEN <<product.price_per_unit_value[1], 1>>
        ELSE calculate_price_per_unit(product)]

\* the key function of products.sort
SortKey(product, sb) ==
    IF sb = "price_per_unit" THEN product.price_per_unit
    ELSE <<product.price, 1>>

\* list.sort is stable: insertion after the elements that are not greater
RECURSIVE InsertReversingTies(_, _, _)
InsertReversingTies(sorted, x, sb) ==
    IF sorted = <<>> THEN <<x>>
    ELSE IF Leq(SortKey(x, sb), SortKey(Head(sorted), sb))
    THEN <<x>> \o sorted
    ELSE <<Head(sorted)>> \o InsertReversingTies(Tail(sorted), x, sb)

RECURSIVE Insert(_, _, _)
Insert(sorted, x, sb) ==
    IF sorted = <<>> THEN <<x>>
    ELSE IF Lt(SortKey(x, sb), SortKey(Head(sorted), sb))
    THEN <<x>> \o sorted
    ELSE <<Head(sorted)>> \o Insert(Tail(sorted), x, sb)

RECURSIVE ListSort(_, _)
ListSort(list, sb) ==
    IF list = <<>> THEN <<>>
    ELSE Insert(ListSort(SubSeq(list, 1, Len(list) - 1), sb), list[Len(list)], sb)

\* the two sort branches; any other sort_by leaves the merge order
SortProducts(list, sb) ==
    IF sb \in {"price_per_unit", "price"} THEN ListSort(list, sb) ELSE list

\* the three jsonify calls
JsonError == [status |-> 500, error |-> TRUE]

JsonProducts(products) ==
    IF products = <<>>
    THEN [status |-> 200, products |-> <<>>, count |-> 0, message |-> TRUE]
    ELSE [status |-> 200, products |-> products, count |-> Len(products)]

\* products before the sort (lines 302-334)
MergedProducts(sel, res) ==
    LET g == gather(TasksFrom(1, sel, res))
        combined == Combine(g.results, [seen_products |-> {}, products |-> <<>>])
    IN  IF g.raised THEN <<>>
        ELSE [i \in 1..Len(combined.products) |->
                 WithPricePerUnit(combined.products[i])]

\* the response of search_products once gather has returned
SearchResponse(sel, sb, res) ==
    IF gather(TasksFrom(1, sel, res)).raised THEN JsonError
    ELSE JsonProducts(SortProducts(MergedProducts(sel, res), sb))

(***************************************************************************)
(* What the three scrapers can hand to search_products                     *)
(***************************************************************************)
\* the longest product list a source returns in the model
MaxLen == 2

U_500g  == <<"5", "0", "0", "g">>
U_1000g == <<"1", "0", "0", "0", "g">>
U_0stuk == <<"0", " ", "s", "t", "u", "k">>
U_2stuk == <<"2", " ", "s", "t", "u", "k">>
U_zak   == <<"z", "a", "k">>

Product(store, name, price, unit_size, ppuv) ==
    [store |-> store, name |-> name, price |-> price, unit_size |-> unit_size,
     price_per_unit_value |-> ppuv]

\* The products of each store's page.  ah never sets price_per_unit_value
\* and leaves unit_size None without a unit element; jumbo sets
\* price_per_unit_value from the unit price text when it parses.
Universe(store) ==
    CASE store = "ah" ->
           {Product("ah", "gouda", 350, Some(U_500g), None),
            Product("ah", "gouda", 400, Some(U_1000g), None),
            Product("ah", "brood", 200, None, None)}
      [] store = "jumbo" ->
           {Product("jumbo", "gouda", 700, Some(U_1000g), Some(700)),
            Product("jumbo", "eieren", 350, Some(U_0stuk), None)}
      [] store = "plus" ->
           {Product("plus", "gouda", 350, Some(U_2stuk), None),
            Product("plus", "kaas", 700, Some(U_zak), None)}

SeqsUpTo(S, n) == UNION {[1..k -> S] : k \in 0..n}

\* ah and jumbo return (and cache) their list sorted by price
SortedByPrice(list) ==
    \A i \in 1..Len(list) - 1 : list[i].price <= list[i + 1].price

SourceLists(store) ==
    {list \in SeqsUpTo(Universe(store), MaxLen) :
        store \in {"ah", "jumbo"} => SortedByPrice(list)}

(***************************************************************************)
(* Actions of search_products                                              *)
(***************************************************************************)
SearchInit ==
    /\ spc = "idle"
    /\ stores = {}
    /\ sort_by = "price_per_unit"
    /\ results = [s \in StoreNames |-> NotAsked]
    /\ merged = <<>>
    /\ response = None

\* only the first store's coroutine is handed to gather
tasksFirstOnly(sel) ==
    [s \in StoreNames |-> IF s \in sel /\ s = StoreOrder[1] THEN Pending ELSE NotAsked]

\* lines 289-299: one coroutine per requested store, all handed to gather
tasks(sel) == [s \in StoreNames |-> IF s \in sel THEN Pending ELSE NotAsked]

\* lines 284-299: the request is read and one task per requested store is
\* created; the handler then awaits all of them
SearchStart(sel, sb) ==
    /\ spc = "idle"
    /\ spc' = "gather"
    /\ stores' = sel
    /\ sort_by' = sb
    /\ results' = tasks(sel)
    /\ merged' = <<>>
    /\ response' = None
    /\ UNCHANGED <<cvars, rest>>

\* a scraper task returns its list
TaskReturns(s, items) ==
    /\ spc = "gather"
    /\ results[s] = Pending
    /\ results' = [results EXCEPT ![s] = Returned(items)]
    /\ UNCHANGED <<spc, stores, sort_by, merged, response>>
    /\ UNCHANGED <<cvars, rest>>

\* a scraper task raises
TaskRaises(s) ==
    /\ spc = "gather"
    /\ results[s] = Pending
    /\ results' = [results EXCEPT ![s] = Raised]
    /\ UNCHANGED <<spc, stores, sort_by, merged, response>>
    /\ UNCHANGED <<cvars, rest>>

\* lines 299-356: gather returns once every task is done; merge, price per
\* unit, sort, respond
SearchRespond ==
    /\ spc = "gather"
    /\ \A s \in stores : results[s] # Pending
    /\ spc' = "responded"
    /\ merged' = MergedProducts(stores, results)
    /\ response' = SearchResponse(stores, sort_by, results)
    /\ UNCHANGED <<stores, sort_by, results>>
    /\ UNCHANGED <<cvars, rest>>

\* the response is sent; the server is ready for the next request
SearchFinish ==
    /\ spc = "responded"
    /\ spc' = "idle"
    /\ stores' = {}
    /\ sort_by' = "price_per_unit"
    /\ results' = [s \in StoreNames |-> NotAsked]
    /\ merged' = <<>>
    /\ response' = None
    /\ UNCHANGED <<cvars, rest>>

SearchNext ==
    \/ \E sel \in SUBSET StoreNames, sb \in SortKeys : SearchStart(sel, sb)
    \/ \E s \in StoreNames : \E items \in SourceLists(s) : TaskReturns(s, items)
    \/ \E s \in StoreNames : TaskRaises(s)
    \/ SearchRespond
    \/ SearchFinish

(***************************************************************************)
(* Claims about search_products                                            *)
(***************************************************************************)
Succeeded == {s \in stores : results[s].kind = "list"}

Failed == {s \in stores : results[s].kind = "exc"}

\* the lists of the sources that succeeded, concatenated in invocation order
RECURSIVE MergeOrderFrom(_)
MergeOrderFrom(i) ==
    IF i > Len(StoreOrder) THEN <<>>
    ELSE (IF StoreOrder[i] \in Succeeded THEN results[StoreOrder[i]].items ELSE <<>>)
         \o MergeOrderFrom(i + 1)

MergeOrder == MergeOrderFrom(1)

SamePair(p, q) == p.store = q.store /\ p.name = q.name

HasPair(list, p) == \E j \in 1..Len(list) : SamePair(list[j], p)

\* the place in the merge order of the first product with p's (store, name)
MergePos(p) == Min({k \in 1..Len(MergeOrder) : SamePair(MergeOrder[k], p)})

\* a response product without the field search_products adds
Scraped(p) == Product(p.store, p.name, p.price, p.unit_size, p.price_per_unit_value)

Answered == spc = "responded" /\ response.status = 200

\* C1: whatever stores are requested and whichever of them raise, the
\* response is not an error and holds, for every product of every source
\* that returned a list, a product with that (store, name).
C1_FailureIsolation ==
    spc = "responded" =>
        /\ response.status = 200
        /\ \A s \in Succeeded :
              \A i \in 1..Len(results[s].items) :
                  HasPair(response.products, results[s].items[i])

\* C1 witness: a source raised, another returned products, and they are served
C1_Witness ==
    /\ Answered
    /\ Failed # {}
    /\ \E s \in Succeeded : results[s].items # <<>>
    /\ response.count > 0

\* what a response says about failed sources: none of the three jsonify
\* calls carries such a field
FailuresReported(resp) ==
    IF "failed_sources" \in DOMAIN resp THEN resp.failed_sources ELSE {}

\* C2: the response names the requested sources that failed, and a response
\* to a search whose sources all failed differs from the response to the same
\* search with every source returning an empty list.
C2_FailureReporting ==
    spc = "responded" =>
        /\ FailuresReported(response) = Failed
        /\ (stores # {} /\ Failed = stores) =>
              response # SearchResponse(stores, sort_by,
                  [s \in StoreNames |->
                      IF s \in stores THEN Returned(<<>>) ELSE NotAsked])

\* C3: the returned list has no two products with the same (store, name);
\* each returned product is the first of its pair in merge order; every pair
\* of the merge order is returned, so the same name in two stores is kept twice.
C3_Deduplication ==
    Answered =>
        LET out == response.products
        IN  /\ \A i, j \in 1..Len(out) : i # j => ~SamePair(out[i], out[j])
            /\ \A i \in 1..Len(out) :
                  /\ HasPair(MergeOrder, out[i])
                  /\ Scraped(out[i]) = MergeOrder[MergePos(out[i])]
            /\ \A k \in 1..Len(MergeOrder) : HasPair(out, MergeOrder[k])

\* C3 witness: a pair occurs twice with different prices in one source, the
\* same name comes from two stores, and the duplicate is dropped
C3_Witness ==
    /\ Answered
    /\ \E i, j \in 1..Len(MergeOrder) :
          i < j /\ SamePair(MergeOrder[i], MergeOrder[j])
          /\ MergeOrder[i] # MergeOrder[j]
    /\ \E i, j \in 1..Len(MergeOrder) :
          MergeOrder[i].name = MergeOrder[j].name
          /\ MergeOrder[i].store # MergeOrder[j].store
    /\ response.count < Len(MergeOrder)

\* the key the claim sorts by
ClaimedKey(p) ==
    IF sort_by = "price" THEN <<p.price, 1>> ELSE p.price_per_unit

\* C4: for sort_by price_per_unit or price the returned list is a
\* rearrangement of the merged list, non-decreasing in the selected key, and
\* products with equal keys are in merge order.
C4_StableSort ==
    (Answered /\ sort_by \in {"price_per_unit", "price"}) =>
        LET out == response.products
        IN  /\ Len(out) = Len(merged)
            /\ \A k \in 1..Len(merged) : \E i \in 1..Len(out) : out[i] = merged[k]
            /\ \A i, j \in 1..Len(out) :
                  i < j =>
                    /\ Leq(ClaimedKey(out[i]), ClaimedKey(out[j]))
                    /\ Leq(ClaimedKey(out[j]), ClaimedKey(out[i]))
                          => MergePos(out[i]) < MergePos(out[j])

\* C4 witness: the sort moved a product, and two products tie on the key
C4_Witness ==
    /\ Answered
    /\ sort_by \in {"price_per_unit", "price"}
    /\ response.count = Len(merged)
    /\ response.products # merged
    /\ \E i, j \in 1..response.count :
          /\ i < j
          /\ Leq(ClaimedKey(response.products[j]), ClaimedKey(response.products[i]))
          /\ response.products[i].store # response.products[j].store

\* unit sizes from which no price per unit can be derived: absent, a text
\* without a unit, a quantity of zero
UnderivableUnits == {None, Some(U_zak), Some(U_0stuk)}

Underivable(p) ==
    p.price_per_unit_value = None /\ p.unit_size \in UnderivableUnits

\* C5: a merged product without price_per_unit_value whose unit size gives no
\* price per unit gets the sort value infinity, and when sorting by
\* price_per_unit it comes after every product that has a price per unit.
C5_UnderivableIsInfinite ==
    Answered =>
        LET out == response.products
        IN  /\ \A i \in 1..Len(out) :
                  Underivable(out[i]) => out[i].price_per_unit = Inf
            /\ sort_by = "price_per_unit" =>
                  \A i, j \in 1..Len(out) :
                      (i < j /\ Underivable(out[i])) => Underivable(out[j])

(***************************************************************************)
(* The cache of a scraper (ah_scraper.py, jumbo_scraper.py and             *)
(* plus_scraper.py hold the same four cache functions, with the prefixes   *)
(* ah_, jumbo_ and plus_ in the file name)                                 *)
(***************************************************************************)
CACHE_DURATION == 12

CACHE_DURATION_VARIANCE == 4

\* '2000-01-01', the timestamp assumed for an entry without one: decades
\* before the hour 0 of the model's clock
Y2000 == -200000

Terms == {"kaas", "brood"}

\* get_cache_file: one file per (prefix, term)
Keys == StoreNames \X Terms

\* A cache file.  kind: "absent" (no file), "badjson" (json.load raises),
\* "json".  tsKind: 'timestamp' is "missing", "malformed" (fromisoformat
\* raises) or "iso" (ts hours).  pKind: 'products' is "missing", "null" or a
\* "list".  writer: "pipeline" for a file written by save_to_cache.
Entry(kind, tsKind, ts, pKind, products, writer) ==
    [kind |-> kind, tsKind |-> tsKind, ts |-> ts, pKind |-> pKind,
     products |-> products, writer |-> writer]

Absent == Entry("absent", "missing", 0, "missing", <<>>, "none")

BadJson == Entry("badjson", "missing", 0, "missing", <<>>, "outside")

\* a jitter that is the same on every check
JittersFixed == {0}

\* random.uniform(-variance, +variance), in whole hours
Jitters == (0 - CACHE_DURATION_VARIANCE)..CACHE_DURATION_VARIANCE

\* actual_duration = CACHE_DURATION + timedelta(seconds=variance)
actual_durationDoubled(variance) == CACHE_DURATION + 2 * variance

actual_duration(variance) == CACHE_DURATION + variance

\* the try block of should_update_cache: raises, or answers "expired"
UpdateCheck(entry, t, variance) ==
    IF entry.kind = "badjson" \/ entry.tsKind = "malformed"
    THEN [raised |-> TRUE, value |-> TRUE]
    ELSE LET cache_time == IF entry.tsKind = "missing" THEN Y2000 ELSE entry.ts
         IN  [raised |-> FALSE,
              value  |-> t - cache_time > actual_duration(variance)]

\* should_update_cache without its except clause
should_update_cacheUncaught(entry, t, variance) ==
    IF entry.kind = "absent" THEN [raised |-> FALSE, value |-> TRUE]
    ELSE UpdateCheck(entry, t, variance)

\* should_update_cache: a missing file or any exception answers True
should_update_cache(entry, t, variance) ==
    IF entry.kind = "absent" THEN [raised |-> FALSE, value |-> TRUE]
    ELSE IF UpdateCheck(entry, t, variance).raised
    THEN [raised |-> FALSE, value |-> TRUE]
    ELSE UpdateCheck(entry, t, variance)

\* load_from_cache: the products, [] when the key is missing, None when
\* anything raises (open, json.load, len(None))
load_from_cache(entry) ==
    IF entry.kind # "json" \/ entry.pKind = "null" THEN None
    ELSE Some(entry.products)

\* save_to_cache: the file is rewritten with now and the products
save_to_cache(products, t) == Entry("json", "iso", t, "list", products, "pipeline")

\* `if cached_products is not None` (ah, jumbo), `if cached_products` (plus)
CacheHit(store, loaded) ==
    IF store = "plus" THEN loaded # None /\ loaded[1] # <<>>
    ELSE loaded # None

(***************************************************************************)
(* scrape_ah_products, scrape_jumbo_products, scrape_plus_products         *)
(***************************************************************************)
\* the calls that can be in progress together
CallIds == {"c1", "c2"}

\* calls started in one behaviour
MaxCalls == 2

\* cache files changed from outside in one behaviour
MaxPlanted == 1

\* the clock: it advances TickHours at a time, up to MaxTime
TickHours == 6

MaxTime == 18

NoResult == [kind |-> "none", items |-> <<>>, cause |-> "none"]

ReturnList(items) == [kind |-> "list", items |-> items, cause |-> "none"]

Raise(cause) == [kind |-> "raise", items |-> <<>>, cause |-> cause]

\* A call: pc is "idle", "check" (before should_update_cache), "load"
\* (before load_from_cache), "fetch" (awaiting the fetch) or "done";
\* answer is what should_update_cache said, readable whether
\* load_from_cache returned a list, fetches the fetches made, outcome how
\* the fetch ended, result what the call returned or raised.
IdleCall ==
    [pc |-> "idle", store |-> "ah", term |-> "kaas", answer |-> "none",
     readable |-> "none", fetches |-> 0, outcome |-> "none", result |-> NoResult]

KeyOf(call) == <<call.store, call.term>>

\* what one page can yield after extraction: here no product or one gouda
PageLists(store) ==
    {list \in SourceLists(store) :
        Len(list) <= 1 /\ \A i \in 1..Len(list) : list[i].name = "gouda"}

\* a non-empty product list of the store
SomeList(store) == CHOOSE list \in PageLists(store) : list # <<>>

\* how a fetch can end: the fetch raises or times out ("fail"), the crawler
\* returns no extracted content ("nocontent", jumbo and plus), the code
\* around the card loop raises ("extract_error"), or the cards are
\* extracted ("page")
FetchOutcomes(store) ==
    IF store = "ah" THEN {"fail", "extract_error", "page"}
    ELSE {"fail", "nocontent", "extract_error", "page"}

\* `if products: save_to_cache(...)` (ah, jumbo); plus returns [] before
\* its save_to_cache when nothing was extracted
ShouldSaveAlways(store, products) == TRUE

ShouldSave(store, products) == products # <<>>

\* a call that answers a failed refresh with a list of products
AfterFetchServes(store, outcome, products) ==
    IF outcome = "page" THEN ReturnList(products) ELSE ReturnList(SomeList(store))

\* what the call returns or raises after the fetch
\*   ah:    line 292-294 re-raises; line 290 returns the products
\*   jumbo: lines 313-319 re-raise; line 311 returns [] without content
\*   plus:  line 443-445 returns [] on any exception; 356-365 return []
AfterFetch(store, outcome, products) ==
    CASE outcome \in {"fail", "extract_error"} ->
            IF store = "plus" THEN ReturnList(<<>>) ELSE Raise("fetch")
      [] outcome = "nocontent" -> ReturnList(<<>>)
      [] outcome = "page" -> ReturnList(products)

CacheInit ==
    /\ cache = [k \in Keys |-> Absent]
    /\ now = 0
    /\ calls = [c \in CallIds |-> IdleCall]
    /\ ncalls = 0
    /\ nplanted = 0

\* a call of scrape_<store>_products(term) begins
CallStart(c, s, t) ==
    /\ calls[c].pc = "idle"
    /\ ncalls < MaxCalls
    /\ ncalls' = ncalls + 1
    /\ calls' = [calls EXCEPT ![c] = [IdleCall EXCEPT !.pc = "check",
                                                      !.store = s, !.term = t]]
    /\ UNCHANGED <<cache, now, nplanted>>
    /\ UNCHANGED <<svars, rest>>

\* `if not should_update_cache(cache_file)`, with the jitter it draws
CheckCache(c, variance) ==
    /\ calls[c].pc = "check"
    /\ LET r == should_update_cache(cache[KeyOf(calls[c])], now, variance)
       IN  calls' = [calls EXCEPT ![c] =
              IF r.raised
              THEN [@ EXCEPT !.pc = "done", !.result = Raise("cache")]
              ELSE IF r.value
              THEN [@ EXCEPT !.pc = "fetch", !.answer = "stale"]
              ELSE [@ EXCEPT !.pc = "load", !.answer = "fresh"]]
    /\ UNCHANGED <<cache, now, ncalls, nplanted>>
    /\ UNCHANGED <<svars, rest>>

\* `cached_products = load_from_cache(search_term)` and the test on it
LoadCache(c) ==
    /\ calls[c].pc = "load"
    /\ LET loaded == load_from_cache(cache[KeyOf(calls[c])])
       IN  calls' = [calls EXCEPT ![c] =
              IF CacheHit(calls[c].store, loaded)
              THEN [@ EXCEPT !.pc = "done", !.readable = "yes",
                             !.result = ReturnList(loaded[1])]
              ELSE [@ EXCEPT !.pc = "fetch",
                             !.readable = IF loaded = None THEN "no" ELSE "yes"]]
    /\ UNCHANGED <<cache, now, ncalls, nplanted>>
    /\ UNCHANGED <<svars, rest>>

\* the awaited fetch ends; extraction, save_to_cache and the return follow
\* without another await
FetchCompletes(c, outcome, products) ==
    /\ calls[c].pc = "fetch"
    /\ outcome \in FetchOutcomes(calls[c].store)
    /\ products \in PageLists(calls[c].store)
    /\ outcome # "page" => products = <<>>
    /\ calls' = [calls EXCEPT ![c] =
          [@ EXCEPT !.pc = "done", !.fetches = @ + 1, !.outcome = outcome,
                    !.result = AfterFetch(calls[c].store, outcome, products)]]
    /\ cache' = IF outcome = "page" /\ ShouldSave(calls[c].store, products)
                THEN [cache EXCEPT ![KeyOf(calls[c])] = save_to_cache(products, now)]
                ELSE cache
    /\ UNCHANGED <<now, ncalls, nplanted>>
    /\ UNCHANGED <<svars, rest>>

\* the caller has the result
CallReturn(c) ==
    /\ calls[c].pc = "done"
    /\ calls' = [calls EXCEPT ![c] = IdleCall]
    /\ UNCHANGED <<cache, now, ncalls, nplanted>>
    /\ UNCHANGED <<svars, rest>>

\* time passes
Tick ==
    /\ now + TickHours <= MaxTime
    /\ now' = now + TickHours
    /\ UNCHANGED <<cache, calls, ncalls, nplanted>>
    /\ UNCHANGED <<svars, rest>>

\* the files something other than save_to_cache can leave in the cache
\* directory: none, garbage, JSON without or with a broken timestamp, JSON
\* whose products are null or missing, a well-formed file of no products
PlantedEntries(store, t) ==
    {Absent, BadJson,
     Entry("json", "iso", t, "null", <<>>, "outside"),
     Entry("json", "iso", t, "missing", <<>>, "outside")}
    \cup {Entry("json", tsKind, 0, "list", SomeList(store), "outside") :
             tsKind \in {"missing", "malformed"}}
    \cup {Entry("json", "iso", t, "list", <<>>, "outside")}

\* a cache file is removed, damaged or replaced from outside the program
\* while a call on its key is in progress (where a call can see the change)
PlantFile(k, entry) ==
    /\ nplanted < MaxPlanted
    /\ \E c \in CallIds :
          calls[c].pc \in {"check", "load", "fetch"} /\ KeyOf(calls[c]) = k
    /\ entry \in PlantedEntries(k[1], now)
    /\ entry # cache[k]
    /\ nplanted' = nplanted + 1
    /\ cache' = [cache EXCEPT ![k] = entry]
    /\ UNCHANGED <<now, calls, ncalls>>
    /\ UNCHANGED <<svars, rest>>

\* the calls made one after the other
Sequential == {"c1"}

CacheNext ==
    \/ \E c \in Sequential, s \in StoreNames, t \in Terms : CallStart(c, s, t)
    \/ \E c \in Sequential, variance \in Jitters : CheckCache(c, variance)
    \/ \E c \in Sequential : LoadCache(c)
    \/ \E c \in Sequential, outcome \in {"fail", "nocontent", "extract_error", "page"} :
          \E products \in UNION {PageLists(s) : s \in StoreNames} :
              FetchCompletes(c, outcome, products)
    \/ \E c \in Sequential : CallReturn(c)
    \/ Tick
    \/ \E k \in Keys : \E entry \in PlantedEntries(k[1], now) : PlantFile(k, entry)

(***************************************************************************)
(* Texts and numbers of the extractors                                     *)
(***************************************************************************)
LowerLetters ==
    {"a", "b", "c", "d", "e", "f", "g", "h", "i", "j", "k", "l", "m", "n", "o",
     "p", "q", "r", "s", "t", "u", "v", "w", "x", "y", "z"}

\* (?:[^a-z]|$) at position k of s
NotLetterAt(s, k) == k > Len(s) \/ s[k] \notin LowerLetters

\* str(n) of a natural number
RECURSIVE IntText(_)
IntText(n) ==
    IF n < 10 THEN <<CHOOSE c \in Digit : DigitVal(c) = n>>
    ELSE IntText(n \div 10) \o <<CHOOSE c \in Digit : DigitVal(c) = n % 10>>

\* s.replace(a, b) for one-character a and a text b
RECURSIVE Replace(_, _, _)
Replace(s, a, b) ==
    IF s = <<>> THEN s
    ELSE (IF Head(s) = a THEN b ELSE <<Head(s)>>) \o Replace(Tail(s), a, b)

\* float(t) of a text of digits with at most one '.', as a rational; None
\* when float raises ValueError
ParseDecimal(t) ==
    LET e == DigitRunEnd(t, 1)
    IN  IF e > Len(t)
        THEN IF t = <<>> THEN None ELSE Some(<<ToInt(t), 1>>)
        ELSE IF t[e] = "." /\ DigitRunEnd(t, e + 1) = Len(t) + 1 /\ Len(t) > 1
        THEN Some(<<ToInt(SubSeq(t, 1, e - 1) \o SubSeq(t, e + 1, Len(t))),
                    Pow10(Len(t) - e)>>)
        ELSE None

\* a float of at most two decimals, in cents
Cents(r) == (r[1] * 100) \div r[2]

(***************************************************************************)
(* ah_scraper.py: the card loop of scrape_ah_products                      *)
(***************************************************************************)
\* the unit matched by ([gk]|kg|gram|stuk)(?:[^a-z]|$) at position j, or None
ah_unit_at(s, j) ==
    IF j <= Len(s) /\ s[j] \in {"g", "k"} /\ NotLetterAt(s, j + 1)
    THEN Some(<<s[j]>>)
    ELSE IF StartsAt(s, j, T_kg) /\ NotLetterAt(s, j + 2) THEN Some(T_kg)
    ELSE IF StartsAt(s, j, <<"g", "r", "a", "m">>) /\ NotLetterAt(s, j + 4) THEN Some(<<"g", "r", "a", "m">>)
    ELSE IF StartsAt(s, j, T_stuk) /\ NotLetterAt(s, j + 4) THEN Some(T_stuk)
    ELSE None

\* lines 179-190: the unit size in standard format, the text itself when the
\* pattern does not match
ah_unit_size(unit_size) ==
    LET s == Lower(unit_size)
        m == {i \in 1..Len(s) :
                 IsDigitAt(s, i)
                 /\ ah_unit_at(s, SkipSpace(s, DigitRunEnd(s, i))) # None}
    IN  IF m = {} THEN unit_size
        ELSE LET i    == Min(m)
                 num  == SubSeq(s, i, DigitRunEnd(s, i) - 1)
                 unit == ah_unit_at(s, SkipSpace(s, DigitRunEnd(s, i)))[1]
             IN  IF unit \in {T_g, <<"g", "r", "a", "m">>} THEN num \o T_g
                 ELSE IF unit \in {<<"k">>, T_kg}
                 THEN IntText(ToInt(num) * 1000) \o T_g
                 ELSE num \o <<" ", "s", "t", "u", "k">>

\* A product as an extractor emits it.  name and price are optional because
\* the plus extractor can emit a product without them; prices are in cents.
Item(store, name, price, promo, original_price, unit_size, ppu_value, ppu_unit) ==
    [store |-> store, name |-> name, price |-> price, is_promotional |-> promo,
     original_price |-> original_price, unit_size |-> unit_size,
     price_per_unit_value |-> ppu_value, price_per_unit_unit |-> ppu_unit]

\* the outcome of one card: it is skipped, it yields a product, or (plus) it
\* raises out of the loop
Skipped == [kind |-> "skip"]

Emits(item) == [kind |-> "product", item |-> item]

Aborts == [kind |-> "abort"]

\* An ah card as the selectors see it: name (the title text, None without
\* the element), price (None without the element, else the texts of its
\* integer and fractional parts), bonus (a price-promotion element exists),
\* strike (the struck-out text under it), unit (the unit-size text), image
\* (the src of the image element, None without the element), link (the
\* product link exists).
AhCard(name, price, bonus, strike, unit, image, link) ==
    [name |-> name, price |-> price, bonus |-> bonus, strike |-> strike,
     unit |-> unit, image |-> image, link |-> link]

\* line 147: float(f"{integer_part}.{fractional_part}"), None when it raises
ah_price(price) == ParseDecimal(price.integer \o <<".">> \o price.fractional)

\* lines 166-173: the original price, None when float raises
ah_original_price(strike) ==
    LET text == Replace(Replace(Strip(strike), "€", <<>>), ",", <<".">>)
        r    == ParseDecimal(Strip(text))
    IN  IF r = None THEN None ELSE Some(Cents(r[1]))

\* lines 130-280: one pass of the card loop
ah_card(card) ==
    IF card.name = None THEN Skipped
    ELSE IF card.price = None THEN Skipped
    ELSE IF ah_price(card.price[1]) = None THEN Skipped
    ELSE IF card.image = None \/ card.image = Some(<<>>) THEN Skipped
    ELSE IF ~card.link THEN Skipped
    ELSE Emits(Item("ah",
                    Some(Strip(card.name[1])),
                    Some(Cents(ah_price(card.price[1])[1])),
                    card.bonus,
                    IF card.bonus /\ card.strike # None
                    THEN ah_original_price(card.strike[1]) ELSE None,
                    IF card.unit = None THEN None
                    ELSE Some(ah_unit_size(Strip(card.unit[1]))),
                    None, None))

(***************************************************************************)
(* jumbo_scraper.py: extract_unit_size and the loop over raw_products      *)
(***************************************************************************)
WordChars == LowerLetters \cup Digit \cup {"_"}
    \cup {"A", "B", "C", "D", "E", "F", "G", "H", "I", "J", "K", "L", "M",
          "N", "O", "P", "Q", "R", "S", "T", "U", "V", "W", "X", "Y", "Z"}

\* \b after a word character: position k of s starts no word character
WordEndAt(s, k) == k > Len(s) \/ s[k] \notin WordChars

\* s.endswith(t)
EndsWith(s, t) == Len(t) <= Len(s) /\ SubSeq(s, Len(s) - Len(t) + 1, Len(s)) = t

\* re.search(r'(\d+)\s*<word>(<opt>)?\b', s): group(1) or None
SearchIntWord(s, word, opt) ==
    LET ok(i) ==
            LET j == SkipSpace(s, DigitRunEnd(s, i))
            IN  /\ StartsAt(s, j, word)
                /\ \/ StartsAt(s, j, word \o opt) /\ WordEndAt(s, j + Len(word \o opt))
                   \/ WordEndAt(s, j + Len(word))
        m == {i \in 1..Len(s) : IsDigitAt(s, i) /\ ok(i)}
    IN  IF m = {} THEN None
        ELSE Some(SubSeq(s, Min(m), DigitRunEnd(s, Min(m)) - 1))

\* re.search(r'(\d+(?:[.,]\d+)?)\s*(?:<w1>|<w2>)\b', s): group(1) or None
SearchNumWord(s, words) ==
    LET ok(i) ==
            LET j == SkipSpace(s, NumEnd(s, i))
            IN  \E w \in words : StartsAt(s, j, w) /\ WordEndAt(s, j + Len(w))
        m == {i \in 1..Len(s) : IsDigitAt(s, i) /\ ok(i)}
    IN  IF m = {} THEN None
        ELSE Some(SubSeq(s, Min(m), NumEnd(s, Min(m)) - 1))

\* lines 321-365.  The branch of the kilogram pattern tests 'kg' in pattern
\* or 'kilo' in pattern, and the pattern text k(?:ilo|g) contains neither:
\* a kilogram match falls to the branch `'g' in pattern` and keeps its number.
jumbo_extract_unit_size(name) ==
    LET s     == Lower(name)
        stuk  == SearchIntWord(s, T_stuk, <<"s">>)
        plakAt(i) == \E w \in {T_plak, <<"p", "l", "a", "k", "k">>, <<"p", "l", "a", "k", "e", "n">>, <<"p", "l", "a", "k", "k", "e", "n">>} :
                        LET j == SkipSpace(s, DigitRunEnd(s, i))
                        IN  StartsAt(s, j, w) /\ WordEndAt(s, j + Len(w))
        plakM == {i \in 1..Len(s) : IsDigitAt(s, i) /\ plakAt(i)}
        kilo  == SearchNumWord(s, {T_kilo, T_kg})
        gram  == SearchNumWord(s, {T_g, <<"g", "r", "a", "m">>})
    IN  IF name = <<>> THEN <<>>
        ELSE IF EndsWith(s, <<"h", "a", "l", "f">>) THEN <<"4", "0", "0", "g">>
        ELSE IF Contains(s, <<" ", "h", "e", "e", "l">>) \/ Contains(s, <<"-", "h", "e", "e", "l">>) THEN <<"8", "0", "0", "g">>
        ELSE IF Contains(s, <<"h", "a", "l", "f">>) THEN <<"4", "0", "0", "g">>
        ELSE IF stuk # None THEN stuk[1] \o <<" ", "s", "t", "u", "k", "s">>
        ELSE IF plakM # {}
        THEN SubSeq(s, Min(plakM), DigitRunEnd(s, Min(plakM)) - 1) \o <<" ", "p", "l", "a", "k", "k", "e", "n">>
        ELSE IF kilo # None THEN kilo[1] \o T_g
        ELSE IF gram # None THEN gram[1] \o T_g
        ELSE <<>>

\* re.search(r'€\s*(\d+)[,\.]?(\d{0,2})', s), matched in steps.
\* the position after [,\.]? at b
jumbo_sep_end(s, b) == IF b <= Len(s) /\ s[b] \in {",", "."} THEN b + 1 ELSE b

\* the position after (\d{0,2}) at c
jumbo_cents_end(s, c) ==
    IF IsDigitAt(s, c) THEN (IF IsDigitAt(s, c + 1) THEN c + 2 ELSE c + 1) ELSE c

\* the match whose digits run from a to b and whose cents start at c
jumbo_money_at(s, a, b, c) ==
    Some([euros |-> SubSeq(s, a, b - 1),
          cents |-> SubSeq(s, c, jumbo_cents_end(s, c) - 1),
          end   |-> jumbo_cents_end(s, c)])

jumbo_money_from(s, a, b) == jumbo_money_at(s, a, b, jumbo_sep_end(s, b))

\* the start positions of a match
jumbo_money_starts(s) ==
    {i \in 1..Len(s) : s[i] = "€" /\ IsDigitAt(s, SkipSpace(s, i + 1))}

\* the digits of the leftmost match start at a
jumbo_money_leftmost(s, a) == jumbo_money_from(s, a, DigitRunEnd(s, a))

\* the leftmost match as [euros, cents, end], end the position after the
\* match; None without a match
jumbo_money(s) ==
    IF jumbo_money_starts(s) = {} THEN None
    ELSE jumbo_money_leftmost(s, SkipSpace(s, Min(jumbo_money_starts(s)) + 1))

\* float(f"{group(1)}.{group(2) or '00'}"), in cents
jumbo_amount(money) ==
    Cents(ParseDecimal(money.euros \o <<".">> \o
                       (IF money.cents = <<>> THEN <<"0", "0">> ELSE money.cents))[1])

\* the position after the run of word characters starting at i (\w+)
RECURSIVE WordRunEnd(_, _)
WordRunEnd(s, i) ==
    IF i <= Len(s) /\ s[i] \in WordChars THEN WordRunEnd(s, i + 1) ELSE i

\* \s+per\s+(\w+) after the money: e is the position after \s+, f the
\* position after per\s+
jumbo_per_word(s, money, e, f) ==
    IF /\ e > money.end
       /\ StartsAt(s, e, <<"p", "e", "r">>)
       /\ f > e + 3
       /\ WordRunEnd(s, f) > f
    THEN Some([value |-> jumbo_amount(money),
               unit  |-> SubSeq(s, f, WordRunEnd(s, f) - 1)])
    ELSE None

jumbo_per(s, money, e) == jumbo_per_word(s, money, e, SkipSpace(s, e + 3))

jumbo_after_money(s, money) ==
    IF money = None THEN None
    ELSE jumbo_per(s, money[1], SkipSpace(s, money[1].end))

\* lines 262-268: re.search(r'€\s*(\d+)[,\.]?(\d{0,2})\s+per\s+(\w+)', s) as
\* [value, unit], None without a match
jumbo_unit_price(s) == jumbo_after_money(s, jumbo_money(s))

\* A raw product of the jumbo page as json.loads returns it: each field is
\* None when the key is missing, image and link say whether the key exists.
JumboCard(name, price, unit_price, unit_size, image, link) ==
    [name |-> name, price |-> price, unit_price |-> unit_price,
     unit_size |-> unit_size, image |-> image, link |-> link]

\* product.get(key, ''), and '' for a null
OrEmpty(opt) == IF opt = None THEN <<>> ELSE opt[1]

\* lines 271-273: the unit size of the page, else the one in the name
jumbo_unit_from_name(given, name) ==
    IF given # <<>> THEN given ELSE jumbo_extract_unit_size(name)

\* lines 274-280: a standard size inferred from the unit of the unit price
jumbo_unit_inferred(unit_size, ppu) ==
    IF unit_size # <<>> \/ ppu = None THEN unit_size
    ELSE IF ppu[1].unit = T_stuk THEN <<"1", " ", "s", "t", "u", "k">>
    ELSE IF ppu[1].unit = T_kilo THEN <<"8", "0", "0", "g">>
    ELSE unit_size

\* formatted_product with the unit of the unit price kept without its value
jumbo_formattedUnitOnly(product, price, unit_size, ppu) ==
    Emits(Item("jumbo", product.name, Some(price), FALSE, None, Some(unit_size),
               None,
               IF ppu = None THEN None ELSE Some(ppu[1].unit)))

\* lines 283-294: formatted_product
jumbo_formatted(product, price, unit_size, ppu) ==
    Emits(Item("jumbo", product.name, Some(price), FALSE, None, Some(unit_size),
               IF ppu = None THEN None ELSE Some(<<ppu[1].value, 1>>),
               IF ppu = None THEN None ELSE Some(ppu[1].unit)))

jumbo_priced(product, price, ppu) ==
    jumbo_formatted(product, price,
        jumbo_unit_inferred(
            jumbo_unit_from_name(OrEmpty(product.unit_size), product.name[1]), ppu),
        ppu)

\* lines 246-298: one pass of the loop over raw_products
jumbo_card(product) ==
    IF product.price = None THEN Skipped
    ELSE IF jumbo_money(product.price[1]) = None THEN Skipped
    ELSE IF product.name = None \/ ~product.image \/ ~product.link THEN Skipped
    ELSE jumbo_priced(product,
                      jumbo_amount(jumbo_money(product.price[1])[1]),
                      jumbo_unit_price(OrEmpty(product.unit_price)))

(***************************************************************************)
(* plus_scraper.py: parse_price, calculate_price_per_unit and the loop     *)
(* over the extracted products                                             *)
(***************************************************************************)
\* ''.join(c for c in s if c in keep)
RECURSIVE Filter(_, _)
Filter(s, keep) ==
    IF s = <<>> THEN s
    ELSE (IF Head(s) \in keep THEN <<Head(s)>> ELSE <<>>) \o Filter(Tail(s), keep)

\* s.rstrip('.')
RECURSIVE RStripDots(_)
RStripDots(s) ==
    IF s # <<>> /\ s[Len(s)] = "." THEN RStripDots(SubSeq(s, 1, Len(s) - 1)) ELSE s

\* f"{n:02d}"
TwoDigits(n) == IF n < 10 THEN <<"0">> \o IntText(n) ELSE IntText(n)

\* lines 106-124, in cents: 0 when a part is None or int() raises
parse_price(price_integer, price_decimal) ==
    IF price_integer = None \/ price_decimal = None THEN 0
    ELSE LET integer_str == RStripDots(Filter(price_integer[1], Digit \cup {"."}))
             decimal_str == Filter(price_decimal[1], Digit)
         IN  IF ~(integer_str = <<>> \/ IsDigitText(integer_str)) THEN 0
             ELSE Cents(ParseDecimal(IntText(ToInt(integer_str)) \o <<".">>
                                     \o TwoDigits(ToInt(decimal_str)))[1])

\* re.search(r'per\s*(\d+(?:[.,]\d+)?)\s*<lit>', s): group(1) or None
SearchPerNum(s, lit) ==
    LET num(i) == SkipSpace(s, i + 3)
        ok(i)  == /\ StartsAt(s, i, <<"p", "e", "r">>)
                  /\ IsDigitAt(s, num(i))
                  /\ StartsAt(s, SkipSpace(s, NumEnd(s, num(i))), lit)
        m == {i \in 1..Len(s) : ok(i)}
    IN  IF m = {} THEN None
        ELSE Some(SubSeq(s, num(Min(m)), NumEnd(s, num(Min(m))) - 1))

\* lines 252-282: [value, unit] with value a rational number of cents, or
\* None for the pair (None, None)
plus_calculate_price_per_unit(price, unit_size) ==
    IF unit_size = None \/ unit_size = Some(<<>>) THEN None
    ELSE LET s    == Lower(unit_size[1])
             stuk == SearchInt(s, T_stuk)
             gram == SearchPerNum(s, T_g)
             kg   == SearchPerNum(s, T_kg)
         IN  IF stuk # None /\ ToInt(stuk[1]) > 0
             THEN Some([value |-> <<price, ToInt(stuk[1])>>, unit |-> T_stuk])
             ELSE IF gram # None /\ ToFloat(gram[1])[1] > 0
             THEN Some([value |-> <<price * 1000 * ToFloat(gram[1])[2],
                                    ToFloat(gram[1])[1]>>,
                        unit  |-> T_kilo])
             ELSE IF kg # None /\ ToFloat(kg[1])[1] > 0
             THEN Some([value |-> <<price * ToFloat(kg[1])[2], ToFloat(kg[1])[1]>>,
                        unit  |-> T_kilo])
             ELSE None

\* lines 389-393: re.search(r'(\d+)g', unit_size) as a number, 0 without a
\* match
plus_grams(unit_size) ==
    LET m == {i \in 1..Len(unit_size) :
                 IsDigitAt(unit_size, i)
                 /\ StartsAt(unit_size, DigitRunEnd(unit_size, i), T_g)}
    IN  IF m = {} THEN 0
        ELSE ToInt(SubSeq(unit_size, Min(m), DigitRunEnd(unit_size, Min(m)) - 1))

\* An extracted product of the plus page: name and unit_size are None when
\* the key is missing, price is the value of the schema's own 'price' field
\* when the extraction produced one.
PlusCard(name, price_integer, price_decimal, price, unit_size) ==
    [name |-> name, price_integer |-> price_integer,
     price_decimal |-> price_decimal, price |-> price, unit_size |-> unit_size]

\* lines 368-436: one pass of the cleaning loop.  A unit size with grams
\* for which calculate_price_per_unit returns (None, None) makes the format
\* of line 400 raise, and nothing in the loop catches it.
plus_card(product) ==
    LET price == parse_price(product.price_integer, product.price_decimal)
        unit_size == IF product.unit_size = None THEN <<>> ELSE product.unit_size[1]
        grams == IF unit_size # <<>> THEN plus_grams(unit_size) ELSE 0
        ppu   == plus_calculate_price_per_unit(price, product.unit_size)
    IN  IF grams > 0 /\ ppu = None THEN Aborts
        ELSE Emits(Item("plus", product.name,
                        IF price > 0 THEN Some(price) ELSE product.price,
                        FALSE, None, product.unit_size,
                        IF grams > 0 THEN Some(ppu[1].value) ELSE None,
                        IF grams > 0 THEN Some(ppu[1].unit) ELSE None))

(***************************************************************************)
(* One run of an extractor over the cards of a document                    *)
(***************************************************************************)
\* cards in one document
MaxCards == 2

\* the ah cards tried: a complete card with every price and promotion
\* markup, and a complete card with one other part missing or different
AhPrices ==
    {None, Some([integer |-> <<"3">>, fractional |-> <<"5", "0">>]),
     Some([integer |-> <<"0">>, fractional |-> <<"0", "0">>]),
     Some([integer |-> <<"3">>, fractional |-> <<"x">>])}

AhPromotions ==
    {[bonus |-> FALSE, strike |-> None], [bonus |-> TRUE, strike |-> None],
     [bonus |-> TRUE, strike |-> Some(<<"€", "5", ",", "0", "0">>)],
     [bonus |-> TRUE, strike |-> Some(<<"€", "2", ",", "0", "0">>)],
     [bonus |-> TRUE, strike |-> Some(<<"a", "c", "t", "i", "e">>)]}

AhCards ==
    {AhCard(Some(<<"g", "o", "u", "d", "a">>), p, b.bonus, b.strike, Some(<<"5", "0", "0", " ", "g">>), Some(<<"i">>), TRUE) :
        p \in AhPrices, b \in AhPromotions}
    \cup {AhCard(n, Some([integer |-> <<"3">>, fractional |-> <<"5", "0">>]), FALSE, None,
                 u, i, l) :
            n \in {None, Some(<<" ">>), Some(<<"g", "o", "u", "d", "a">>)},
            u \in {None, Some(<<"1", " ", "k", "g">>)},
            i \in {None, Some(<<>>), Some(<<"i">>)},
            l \in BOOLEAN}

\* the jumbo raw products tried
JumboCards ==
    {JumboCard(Some(<<"g", "o", "u", "d", "a", " ", "1", " ", "k", "g">>), p, up, None, TRUE, TRUE) :
        p  \in {None, Some(<<>>), Some(<<"€", "3", ".", "5", "0">>), Some(<<"€", "0", ".", "0", "0">>)},
        up \in {None, Some(<<"€", " ", "7", ",", "0", "0", " ", "p", "e", "r", " ", "k", "i", "l", "o">>), Some(<<"7", ",", "0", "0", " ", "p", "e", "r", " ", "k", "i", "l", "o">>)}}
    \cup {JumboCard(n, Some(<<"€", "3", ".", "5", "0">>), Some(<<"€", " ", "3", ",", "5", "0", " ", "p", "e", "r", " ", "s", "t", "u", "k">>), u, i, l) :
            n \in {None, Some(<<>>), Some(<<"b", "r", "o", "o", "d">>)},
            u \in {None, Some(<<"5", "0", "0", "g">>)},
            i \in BOOLEAN, l \in BOOLEAN}

\* the plus extracted products tried; the schema's own price field, when
\* present, holds parse_price of the two parts
PlusParts ==
    {[integer |-> Some(<<"3">>), decimal |-> Some(<<"5", "0">>)],
     [integer |-> Some(<<"0">>), decimal |-> Some(<<"0", "0">>)],
     [integer |-> None, decimal |-> None]}

PlusCards ==
    {PlusCard(n, p.integer, p.decimal,
              IF computed THEN Some(parse_price(p.integer, p.decimal)) ELSE None, u) :
        n \in {None, Some(<<"g", "o", "u", "d", "a">>)}, p \in PlusParts,
        computed \in BOOLEAN,
        u \in {None, Some(<<"5", "0", "0", "g">>), Some(<<"p", "e", "r", " ", "5", "0", "0", "g">>), Some(<<"2", " ", "s", "t", "u", "k">>)}}

Cards(store) ==
    CASE store = "ah" -> AhCards
      [] store = "jumbo" -> JumboCards
      [] store = "plus" -> PlusCards

Documents(store) == UNION {[1..n -> Cards(store)] : n \in 1..MaxCards}

card_outcome(store, card) ==
    CASE store = "ah" -> ah_card(card)
      [] store = "jumbo" -> jumbo_card(card)
      [] store = "plus" -> plus_card(card)

\* products.sort(key=lambda x: x['price']): a stable insertion by price
RECURSIVE SortByPrice(_)
SortByPrice(items) ==
    IF items = <<>> THEN items
    ELSE LET sorted == SortByPrice(SubSeq(items, 1, Len(items) - 1))
             last   == items[Len(items)]
             k      == Cardinality({i \in 1..Len(sorted) :
                                       sorted[i].price[1] <= last.price[1]})
         IN  SubSeq(sorted, 1, k) \o <<last>> \o SubSeq(sorted, k + 1, Len(sorted))

ExtractInit ==
    /\ xstore = "none"
    /\ xcards = <<>>
    /\ xout = <<>>
    /\ xstate = "idle"

\* the fetched document reaches the card loop
ExtractStart(store, cards) ==
    /\ xstate = "idle"
    /\ xstore' = store
    /\ xcards' = cards
    /\ xout' = <<>>
    /\ xstate' = "run"
    /\ UNCHANGED <<svars, cvars, uvars, lvars>>

\* one pass of the loop: the card is skipped, appended, or (plus) its
\* exception ends the call with []
ExtractCard ==
    /\ xstate = "run"
    /\ xcards # <<>>
    /\ LET o == card_outcome(xstore, Head(xcards))
       IN  /\ xout' = CASE o.kind = "skip" -> xout
                        [] o.kind = "product" -> Append(xout, o.item)
                        [] o.kind = "abort" -> <<>>
           /\ xstate' = IF o.kind = "abort" THEN "failed" ELSE "run"
    /\ xcards' = Tail(xcards)
    /\ UNCHANGED xstore
    /\ UNCHANGED <<svars, cvars, uvars, lvars>>

\* after the last card: ah and jumbo sort by price, then the list is
\* saved and returned
ExtractEnd ==
    /\ xstate = "run"
    /\ xcards = <<>>
    /\ xout' = IF xstore = "plus" THEN xout ELSE SortByPrice(xout)
    /\ xstate' = "done"
    /\ UNCHANGED <<xstore, xcards>>
    /\ UNCHANGED <<svars, cvars, uvars, lvars>>

ExtractNext ==
    \/ \E store \in StoreNames : \E cards \in Documents(store) :
          ExtractStart(store, cards)
    \/ ExtractCard
    \/ ExtractEnd

(***************************************************************************)
(* app.py: the list routes                                                 *)
(***************************************************************************)
\* the item names the requests carry
Items == {"melk", "brood"}

\* request.form.get('item'): None for a missing field, '' for an empty one
ItemInputs == {None, Some("")} \cup {Some(i) : i \in Items}

\* the products a select_product request can carry (None: no product)
ProductInputs == {None, Some("p1"), Some("p2")}

\* Python truthiness of an optional text
Truthy(opt) == opt # None /\ opt[1] # ""

\* x in list
InList(list, x) == \E i \in 1..Len(list) : list[i] = x

\* list.remove(x): the first occurrence is removed
RemoveFirst(list, x) ==
    LET i == Min({j \in 1..Len(list) : list[j] = x})
    IN  SubSeq(list, 1, i - 1) \o SubSeq(list, i + 1, Len(list))

\* del d[k]
Without(d, k) == [j \in DOMAIN d \ {k} |-> d[j]]

\* d[k] = v
With(d, k, v) == [j \in DOMAIN d \cup {k} |-> IF j = k THEN v ELSE d[j]]

\* the empty dict
EmptyDict == [j \in {} |-> "p1"]

\* the answer of a route: jsonify(...) is answered with status 200
Answer(route, item, status, success) ==
    [route |-> route, item |-> item, status |-> status, success |-> success]

ListInit ==
    /\ grocery_list = <<>>
    /\ selected_products = EmptyDict
    /\ reply = Answer("none", None, 0, FALSE)

\* `if item and item not in grocery_list`, without the membership test
add_itemAlways(item) ==
    IF Truthy(item) THEN Append(grocery_list, item[1]) ELSE grocery_list

\* lines 175-177: the list after add_item
add_itemList(item) ==
    IF Truthy(item) /\ ~InList(grocery_list, item[1])
    THEN Append(grocery_list, item[1]) ELSE grocery_list

add_item(item) ==
    /\ grocery_list' = add_itemList(item)
    /\ reply' = Answer("add_item", item, 200, TRUE)
    /\ UNCHANGED selected_products
    /\ UNCHANGED <<svars, cvars, xvars, uvars>>

\* lines 185-186 left out: the selection is kept
remove_itemKeepsSelection(item) == selected_products

\* lines 183-186: the selections after remove_item
remove_itemSelected(item) ==
    IF item # None /\ InList(grocery_list, item[1])
       /\ item[1] \in DOMAIN selected_products
    THEN Without(selected_products, item[1]) ELSE selected_products

remove_item(item) ==
    /\ grocery_list' = IF item # None /\ InList(grocery_list, item[1])
                       THEN RemoveFirst(grocery_list, item[1]) ELSE grocery_list
    /\ selected_products' = remove_itemSelected(item)
    /\ reply' = Answer("remove_item", item, 200, TRUE)
    /\ UNCHANGED <<svars, cvars, xvars, uvars>>

\* selected_products.clear() left out
clear_listKeepsSelection == selected_products

\* line 192: the selections after clear_list
clear_listSelected == EmptyDict

clear_list ==
    /\ grocery_list' = <<>>
    /\ selected_products' = clear_listSelected
    /\ reply' = Answer("clear_list", None, 200, TRUE)
    /\ UNCHANGED <<svars, cvars, xvars, uvars>>

\* lines 358-375: any item with a product is stored, in the list or not
select_product(item, product) ==
    /\ selected_products' = IF Truthy(item) /\ product # None
                            THEN With(selected_products, item[1], product[1])
                            ELSE selected_products
    /\ reply' = Answer("select_product", item, 200, Truthy(item) /\ product # None)
    /\ UNCHANGED grocery_list
    /\ UNCHANGED <<svars, cvars, xvars, uvars>>

\* lines 377-385
delete_product(item) ==
    /\ selected_products' = IF Truthy(item) /\ item[1] \in DOMAIN selected_products
                            THEN Without(selected_products, item[1])
                            ELSE selected_products
    /\ reply' = Answer("delete_product", item, 200,
                       Truthy(item) /\ item[1] \in DOMAIN selected_products)
    /\ UNCHANGED grocery_list
    /\ UNCHANGED <<svars, cvars, xvars, uvars>>

ListNext ==
    \/ \E item \in ItemInputs : add_item(item)
    \/ \E item \in ItemInputs : remove_item(item)
    \/ clear_list
    \/ \E item \in ItemInputs, product \in ProductInputs : select_product(item, product)
    \/ \E item \in ItemInputs : delete_product(item)

(***************************************************************************)
(* plus_scraper.py: extract_unit_size                                      *)
(***************************************************************************)
\* re.sub(r'^per\s+', '', value)
plus_drop_per(value) ==
    IF StartsAt(value, 1, <<"p", "e", "r">>) /\ SkipSpace(value, 4) > 4
    THEN SubSeq(value, SkipSpace(value, 4), Len(value))
    ELSE value

\* the position of the unit letter of (\d+(?:[.,]\d+)?)\s*([gk]|kg|gram)
\* for a number starting at i
plus_weight_unit_at(s, i) == SkipSpace(s, NumEnd(s, i))

\* int(float(num) * 1000)
plus_kilo_grams(num) == (ToFloat(num)[1] * 1000) \div ToFloat(num)[2]

\* lines 136-142 for the leftmost match, whose number starts at i.  [gk]
\* is the first alternative, so group(2) is the one letter at the unit
\* position.
plus_weight_text(s, i) ==
    IF s[plus_weight_unit_at(s, i)] = "k"
    THEN IntText(plus_kilo_grams(Replace(SubSeq(s, i, NumEnd(s, i) - 1), ",", <<".">>))) \o T_g
    ELSE Replace(SubSeq(s, i, NumEnd(s, i) - 1), ",", <<".">>) \o T_g

\* the starts of the matches of (\d+(?:[.,]\d+)?)\s*([gk]|kg|gram)
plus_weight_starts(s) ==
    {i \in 1..Len(s) :
        /\ IsDigitAt(s, i)
        /\ plus_weight_unit_at(s, i) <= Len(s)
        /\ s[plus_weight_unit_at(s, i)] \in {"g", "k"}}

\* the position after \s*(?:x\s*)? starting at i
plus_times_end(s, i) ==
    IF SkipSpace(s, i) <= Len(s) /\ s[SkipSpace(s, i)] = "x"
    THEN SkipSpace(s, SkipSpace(s, i) + 1)
    ELSE SkipSpace(s, i)

\* re.search(r'(\d+)\s*(?:x\s*)?<lit>', s): group(1) or None
SearchCount(s, lit) ==
    LET m == {i \in 1..Len(s) :
                 IsDigitAt(s, i) /\ StartsAt(s, plus_times_end(s, DigitRunEnd(s, i)), lit)}
    IN  IF m = {} THEN None
        ELSE Some(SubSeq(s, Min(m), DigitRunEnd(s, Min(m)) - 1))

\* lines 135-179 on the cleaned value.  The match of lines 155-168 is never
\* reached: its pattern is the pattern of line 136 with a look-ahead, and a
\* text the first pattern matches has returned at line 141 or 142.
plus_extract_cleaned(value) ==
    IF plus_weight_starts(value) # {}
    THEN plus_weight_text(value, Min(plus_weight_starts(value)))
    ELSE IF SearchCount(value, T_stuk) # None
    THEN SearchCount(value, T_stuk)[1] \o <<" ", "s", "t", "u", "k">>
    ELSE IF SearchCount(value, T_plak) # None
    THEN SearchCount(value, T_plak)[1] \o <<" ", "p", "l", "a", "k", "k", "e", "n">>
    ELSE IF Contains(value, <<"h", "a", "l", "f">>) THEN <<"4", "0", "0", "g">>
    ELSE IF IsDigitText(value) THEN value \o T_g
    ELSE value

\* lines 126-179: value is an optional text
plus_extract_unit_size(value) ==
    IF value = None \/ value = Some(<<>>) THEN <<>>
    ELSE plus_extract_cleaned(plus_drop_per(Strip(Lower(value[1]))))

(***************************************************************************)
(* app.py: the template helpers format_price, format_unit_size and         *)
(* format_price_per_unit                                                   *)
(***************************************************************************)
\* A float rounded to the nearest integer, ties to even: what '{:.2f}' and
\* '{:.1f}' do to a value the float holds exactly.
RoundHalfEven(r) ==
    LET q == r[1] \div r[2]
        twice == 2 * (r[1] % r[2])
    IN  IF twice > r[2] \/ (twice = r[2] /\ q % 2 = 1) THEN q + 1 ELSE q

\* "{:.2f}".format(price).replace('.', ',') of a whole number of cents
CentsText(c) == IntText(c \div 100) \o <<",">> \o TwoDigits(c % 100)

\* The argument of format_price: None, a number (a rational number of
\* cents, Inf, -Inf or NaN) or a text
NoPrice == [kind |-> "none"]

Number(r) == [kind |-> "number", value |-> r]

PriceText(t) == [kind |-> "str", text |-> t]

MinusInf == <<-1, 0>>

NaN == <<0, 0>>

\* "{:.2f}".format(price).replace('.', ',') of a float
format_number(r) ==
    IF r[2] = 0
    THEN IF r[1] > 0 THEN <<"i", "n", "f">> ELSE IF r[1] < 0 THEN <<"-", "i", "n", "f">> ELSE <<"n", "a", "n">>
    ELSE IF r[1] < 0 THEN <<"-">> \o CentsText(RoundHalfEven(<<0 - r[1], r[2]>>))
    ELSE CentsText(RoundHalfEven(r))

\* float(t) of a text without sign or blanks, in cents: digits with at most
\* one '.', or one of the words float accepts; None when it raises
float_unsigned(t) ==
    IF Lower(t) \in {<<"i", "n", "f">>, <<"i", "n", "f", "i", "n", "i", "t", "y">>} THEN Some(Inf)
    ELSE IF Lower(t) = <<"n", "a", "n">> THEN Some(NaN)
    ELSE IF ParseDecimal(t) = None THEN None
    ELSE Some(<<ParseDecimal(t)[1][1] * 100, ParseDecimal(t)[1][2]>>)

Negated(f) == IF f = None THEN None ELSE Some(<<0 - f[1][1], f[1][2]>>)

\* float(t) of a stripped text: an optional sign, then the number.  (The
\* exponent and underscore forms of float are not modelled.)
float_signed(s) ==
    IF s # <<>> /\ Head(s) = "-" THEN Negated(float_unsigned(Tail(s)))
    ELSE IF s # <<>> /\ Head(s) = "+" THEN float_unsigned(Tail(s))
    ELSE float_unsigned(s)

\* line 33: float(price.replace('€', '').replace(',', '.')), None when it
\* raises ValueError
price_float(text) ==
    float_signed(Strip(Replace(Replace(text, "€", <<>>), ",", <<".">>)))

\* lines 30-36: a None raises TypeError inside the try and gives '0,00', a
\* text that float rejects raises ValueError and gives '0,00'
format_price(price) ==
    IF price.kind = "none" THEN <<"0", ",", "0", "0">>
    ELSE IF price.kind = "number" THEN format_number(price.value)
    ELSE IF price_float(price.text) = None THEN <<"0", ",", "0", "0">>
    ELSE format_number(price_float(price.text)[1])

\* what a helper does: it returns a text or raises ValueError
Text(t) == [kind |-> "text", text |-> t]

ValueError == [kind |-> "raise", text |-> <<>>]

\* f"{x:.1f}" of a rational
OneDecimal(r) ==
    IntText(RoundHalfEven(<<r[1] * 10, r[2]>>) \div 10) \o <<".">>
        \o IntText(RoundHalfEven(<<r[1] * 10, r[2]>>) % 10)

\* lines 68-81: grams = float(num), which raises on a comma
format_grams(num) ==
    IF Contains(num, <<",">>) THEN ValueError
    ELSE IF ToFloat(num)[1] >= 1000 * ToFloat(num)[2]
    THEN Text(OneDecimal(<<ToFloat(num)[1], ToFloat(num)[2] * 1000>>) \o <<" ", "k", "g">>)
    ELSE Text(IntText(ToFloat(num)[1] \div ToFloat(num)[2]) \o <<" ", "g">>)

\* r'per\s+(\d+(?:[.,]\d+)?)\s*([gk]|kg|gram)' with 'per' at i: where the
\* number starts and where the unit letter stands
app_per_num(s, i) == SkipSpace(s, i + 3)

app_per_unit(s, i) == SkipSpace(s, NumEnd(s, app_per_num(s, i)))

app_per_starts(s) ==
    {i \in 1..Len(s) :
        /\ StartsAt(s, i, <<"p", "e", "r">>)
        /\ app_per_num(s, i) > i + 3
        /\ IsDigitAt(s, app_per_num(s, i))
        /\ app_per_unit(s, i) <= Len(s)
        /\ s[app_per_unit(s, i)] \in {"g", "k"}}

\* group(1).replace(',', '.') of the match with 'per' at i
app_per_group(s, i) ==
    Replace(SubSeq(s, app_per_num(s, i), NumEnd(s, app_per_num(s, i)) - 1), ",", <<".">>)

\* lines 53-59
app_per_text(s, i) ==
    IF s[app_per_unit(s, i)] = "k"
    THEN <<"P", "e", "r", " ">> \o app_per_group(s, i) \o <<" ", "k", "g">>
    ELSE <<"P", "e", "r", " ">> \o app_per_group(s, i) \o <<" ", "g">>

\* lines 42-83 on the lowered, stripped text
format_unit_size_text(s) ==
    IF Contains(s, T_stuk)
    THEN IF SearchInt(s, T_stuk) # None
         THEN Text(SearchInt(s, T_stuk)[1] \o <<" ", "s", "t", "u", "k", "s">>)
         ELSE Text(s)
    ELSE IF app_per_starts(s) # {}
    THEN Text(app_per_text(s, Min(app_per_starts(s))))
    ELSE IF (Contains(s, T_kg) \/ Contains(s, T_kilo))
            /\ SearchNum(s, {T_kilo, T_kg}) # None
    THEN Text(SearchNum(s, {T_kilo, T_kg})[1] \o <<" ", "k", "g">>)
    ELSE IF SearchNum(s, {T_g}) # None
    THEN format_grams(SearchNum(s, {T_g})[1])
    ELSE IF IsDigitText(s) THEN format_grams(s)
    ELSE Text(s)

\* lines 38-83: unit_size is an optional text
format_unit_size(unit_size) ==
    IF unit_size = None \/ unit_size = Some(<<>>) THEN Text(<<>>)
    ELSE format_unit_size_text(Strip(Lower(unit_size[1])))

\* lines 117-144: the weight in grams as a rational, 0 when none is found
app_grams(s) ==
    IF app_per_starts(s) # {}
    THEN IF s[app_per_unit(s, Min(app_per_starts(s)))] = "k"
         THEN <<ToFloat(app_per_group(s, Min(app_per_starts(s))))[1] * 1000,
                ToFloat(app_per_group(s, Min(app_per_starts(s))))[2]>>
         ELSE ToFloat(app_per_group(s, Min(app_per_starts(s))))
    ELSE IF Contains(s, T_kg) \/ Contains(s, T_kilo)
    THEN IF SearchNum(s, {T_kilo, T_kg}) # None
         THEN <<ToFloat(SearchNum(s, {T_kilo, T_kg})[1])[1] * 1000,
                ToFloat(SearchNum(s, {T_kilo, T_kg})[1])[2]>>
         ELSE <<0, 1>>
    ELSE IF Contains(s, T_g)
    THEN IF SearchNum(s, {T_g}) # None THEN ToFloat(SearchNum(s, {T_g})[1])
         ELSE <<0, 1>>
    ELSE IF IsDigitText(s) THEN <<ToInt(s), 1>>
    ELSE <<0, 1>>

\* f"€{format_price(price / n)}<suffix>" for a price in cents
app_euro(price, n, suffix) ==
    <<"€">> \o format_price(Number(<<price, n>>)) \o suffix

\* lines 97-154 for a price above 0 on the lowered, stripped text
format_price_per_unit_text(price, s) ==
    IF Contains(s, T_stuk)
    THEN IF SearchInt(s, T_stuk) # None /\ ToInt(SearchInt(s, T_stuk)[1]) > 0
         THEN app_euro(price, ToInt(SearchInt(s, T_stuk)[1]), <<"/", "s", "t", "u", "k">>)
         ELSE app_euro(price, 1, <<"/", "s", "t", "u", "k">>)
    ELSE IF Contains(s, T_plak)
    THEN IF SearchInt(s, T_plak) # None /\ ToInt(SearchInt(s, T_plak)[1]) > 0
         THEN app_euro(price, ToInt(SearchInt(s, T_plak)[1]), <<"/", "p", "l", "a", "k">>)
         ELSE app_euro(price, 1, <<"/", "p", "l", "a", "k">>)
    ELSE IF app_grams(s)[1] > 0
    THEN <<"€">> \o format_price(Number(<<price * 1000 * app_grams(s)[2], app_grams(s)[1]>>))
             \o <<"/", "k", "g">>
    ELSE app_euro(price, 1, <<>>)

\* lines 85-158: price is an optional number of cents, unit_size an optional
\* text; '' when either is falsy.  No statement of the try block raises on
\* a number and a text.
format_price_per_unit(price, unit_size) ==
    IF price = None \/ price = Some(0) THEN <<>>
    ELSE IF unit_size = None \/ unit_size = Some(<<>>) THEN <<>>
    ELSE format_price_per_unit_text(price[1], Strip(Lower(unit_size[1])))

(***************************************************************************)
(* The unit-size and price-per-unit routines on one input                  *)
(***************************************************************************)
\* prices in cents, None for a product without a price
UnitPrices == {None, Some(0), Some(400), Some(500), Some(600)}

\* unit texts as the pages and the product names carry them, None for a
\* product without a unit
UnitTexts ==
    {None, Some(<<>>),
     Some(<<"4", "0", "0", "g">>), Some(<<"0", ".", "4", "k", "g">>), Some(<<"1", "0", "0", "0", " ", "g">>), Some(<<"1", " ", "k", "g">>),
     Some(<<"1", "5", "0", "0", "g">>), Some(<<"1", ".", "5", "k", "g">>), Some(<<"1", "0", "0", "0", "g">>), Some(<<"1", "k", "g">>),
     Some(<<"5", "0", "0", "g">>), Some(<<"p", "e", "r", " ", "5", "0", "0", " ", "g">>), Some(<<"2", " ", "s", "t", "u", "k">>), Some(<<"0", " ", "s", "t", "u", "k">>),
     Some(<<"1", "0", " ", "p", "l", "a", "k", "k", "e", "n">>), Some(<<"6", "x", "5", "0", "0", "g">>), Some(<<"4", "x", "1", "2", "5", "g">>),
     Some(<<"h", "a", "l", "f">>), Some(<<"z", "a", "k">>),
     Some(<<"h", "a", "l", "f", " ", "5", "0", "0", "g">>), Some(<<"w", "i", "t", " ", "h", "e", "e", "l">>)}

UnitInputs == [price : UnitPrices, unit : UnitTexts]

\* no routine has been applied yet
NotApplied == [routine |-> "none", out |-> <<>>]

Applied(routine, out) == [routine |-> routine, out |-> out]

\* outside the runs of the unit routines
UnitIdle ==
    /\ uin = [price |-> Some(0), unit |-> None]
    /\ ures = NotApplied

UnitInit ==
    /\ uin \in UnitInputs
    /\ ures = NotApplied

\* ah_scraper.py 176-190: the text of the unit-size element, normalised
ApplyAhUnitSize ==
    /\ ures = NotApplied
    /\ uin.unit # None
    /\ ures' = Applied("ah.unit_size", ah_unit_size(uin.unit[1]))
    /\ UNCHANGED <<svars, cvars, xvars, lvars, uin>>

\* jumbo_scraper.py 321-365 on a text
ApplyJumboExtractUnitSize ==
    /\ ures = NotApplied
    /\ uin.unit # None
    /\ ures' = Applied("jumbo.extract_unit_size", jumbo_extract_unit_size(uin.unit[1]))
    /\ UNCHANGED <<svars, cvars, xvars, lvars, uin>>

\* plus_scraper.py 126-179
ApplyPlusExtractUnitSize ==
    /\ ures = NotApplied
    /\ ures' = Applied("plus.extract_unit_size", plus_extract_unit_size(uin.unit))
    /\ UNCHANGED <<svars, cvars, xvars, lvars, uin>>

\* app.py calculate_price_per_unit on a product without a price-per-unit
\* value of its own
ApplyCalculatePricePerUnit ==
    /\ ures = NotApplied
    /\ uin.price # None
    /\ ures' = Applied("app.calculate_price_per_unit",
                       calculate_price_per_unit(
                           [price |-> uin.price[1], unit_size |-> uin.unit,
                            price_per_unit_value |-> None]))
    /\ UNCHANGED <<svars, cvars, xvars, lvars, uin>>

\* plus_scraper.py 252-282
ApplyPlusCalculatePricePerUnit ==
    /\ ures = NotApplied
    /\ uin.price # None
    /\ ures' = Applied("plus.calculate_price_per_unit",
                       plus_calculate_price_per_unit(uin.price[1], uin.unit))
    /\ UNCHANGED <<svars, cvars, xvars, lvars, uin>>

\* app.py 85-158
ApplyFormatPricePerUnit ==
    /\ ures = NotApplied
    /\ ures' = Applied("app.format_price_per_unit",
                       format_price_per_unit(uin.price, uin.unit))
    /\ UNCHANGED <<svars, cvars, xvars, lvars, uin>>

\* app.py 38-83
ApplyFormatUnitSize ==
    /\ ures = NotApplied
    /\ ures' = Applied("app.format_unit_size", format_unit_size(uin.unit))
    /\ UNCHANGED <<svars, cvars, xvars, lvars, uin>>

UnitNext ==
    \/ ApplyAhUnitSize
    \/ ApplyJumboExtractUnitSize
    \/ ApplyPlusExtractUnitSize
    \/ ApplyCalculatePricePerUnit
    \/ ApplyPlusCalculatePricePerUnit
    \/ ApplyFormatPricePerUnit
    \/ ApplyFormatUnitSize

(***************************************************************************)
(* format_price on one input                                               *)
(***************************************************************************)
\* the price texts a page or a template can hand to format_price
PriceTexts ==
    {<<"2", ",", "5", "0">>, <<"€", "2", ",", "5", "0">>, <<"€", " ", "2", ".", "5", "0">>, <<"2", ".", "5">>, <<"3">>, <<"1", "0", ".", "5", "0">>, <<"€", "1", ",", "9", "9">>,
     <<"1", ",", "9", "9">>, <<"€", "0", ",", "0", "0">>, <<"€", "0", ".", "0", "0">>, <<"0", ",", "0", "0">>, <<" ", "2", ",", "5", " ">>, <<"2", ",", "5", "0", " ", "€">>, <<".", "5">>,
     <<"5", ".">>, <<"-", "1", ",", "5">>, <<"€", "-", "2", ",", "5">>, <<"+", "2", ",", "5">>, <<"1", "2", "3", "4", ",", "5">>,
     <<"i", "n", "v", "a", "l", "i", "d">>, <<"a", "b", "c">>, <<>>, <<"€">>, <<"1", ".", "2", "3", "4", ",", "5", "6">>, <<"-", " ", "2">>, <<"2", ".", "5", ".", "1">>,
     <<"i", "n", "f">>, <<"I", "n", "f", "i", "n", "i", "t", "y">>, <<"-", "i", "n", "f">>, <<"n", "a", "n">>}

\* the numbers: prices in cents, quotients of a price and a count or weight
\* (none of them a tie of the rounding), and what float('inf') and
\* float('nan') give
PriceNumbers ==
    {<<0, 1>>, <<250, 1>>, <<300, 1>>, <<199, 1>>, <<123450, 1>>, <<0 - 150, 1>>,
     <<500, 3>>, <<500, 8>>, <<199, 3>>, <<0 - 500, 7>>, Inf, MinusInf, NaN}

FormatInputs ==
    {NoPrice} \cup {Number(r) : r \in PriceNumbers}
              \cup {PriceText(t) : t \in PriceTexts}

FormatInit ==
    /\ uin \in [price : FormatInputs, unit : {None}]
    /\ ures = NotApplied

\* format_price(price)
ApplyFormatPrice ==
    /\ ures = NotApplied
    /\ ures' = Applied("app.format_price", format_price(uin.price))
    /\ UNCHANGED <<svars, cvars, xvars, lvars, uin>>

\* format_price(format_price(price)): out is the pair of the two results
ApplyFormatPriceAgain ==
    /\ ures.routine = "app.format_price"
    /\ ures' = Applied("app.format_price twice",
                       <<ures.out, format_price(PriceText(ures.out))>>)
    /\ UNCHANGED <<svars, cvars, xvars, lvars, uin>>

FormatNext ==
    \/ ApplyFormatPrice
    \/ ApplyFormatPriceAgain

(***************************************************************************)
(* Concurrent get-products calls.  app.py serves a Flask (WSGI) application *)
(* through hypercorn.asyncio.serve, which runs every request in a thread of *)
(* its pool; each request runs its scraper coroutines on its own event      *)
(* loop.  Two requests therefore run should_update_cache, load_from_cache   *)
(* and save_to_cache on the same cache file from two threads.               *)
(*                                                                         *)
(* save_to_cache opens the file with open(cache_file, 'w'), which empties  *)
(* it, and json.dump then writes the payload through the file's buffer in  *)
(* blocks, each at the writer's own offset.  A file is modelled by its     *)
(* blocks: the payload's first block holds the timestamp, the second the   *)
(* rest of the product list.                                               *)
(***************************************************************************)
\* cache_data of one save_to_cache call (lines 55-58)
Payload(c, t, products) == [by |-> c, ts |-> t, products |-> products]

NoPayload == Payload("none", 0, <<>>)

Block(payload, part) == [payload |-> payload, part |-> part]

\* the bytes before an offset nobody wrote to
Hole == Block(NoPayload, 0)

\* a cache file: whether it exists, its blocks, and how many save_to_cache
\* calls have closed it
NoFile == [exists |-> FALSE, blocks |-> <<>>, closes |-> 0]

\* open(cache_file, 'w'): the file exists and is empty
Truncated(file) == [file EXCEPT !.exists = TRUE, !.blocks = <<>>]

\* a write of the i-th block at the writer's own offset
WriteAt(file, i, block) ==
    [file EXCEPT !.blocks =
        IF i = 1
        THEN <<block>> \o (IF Len(file.blocks) >= 2 THEN <<file.blocks[2]>> ELSE <<>>)
        ELSE <<IF Len(file.blocks) >= 1 THEN file.blocks[1] ELSE Hole, block>>]

\* what the file holds: nothing, one whole payload, a part of a payload, or
\* blocks of two payloads
Seen(file) ==
    IF ~file.exists THEN "absent"
    ELSE IF Len(file.blocks) < 2 \/ file.blocks[1] = Hole THEN "partial"
    ELSE IF file.blocks[1].payload = file.blocks[2].payload THEN "whole"
    ELSE "mixed"

\* json.load of the file, as an Entry.  A part of a payload does not parse;
\* blocks of two payloads parse or not, depending on where the bytes meet
ReadFile(file, parses) ==
    CASE Seen(file) = "absent" -> Absent
      [] Seen(file) = "whole" ->
            save_to_cache(file.blocks[1].payload.products, file.blocks[1].payload.ts)
      [] Seen(file) = "partial" ->
            Entry("badjson", "missing", 0, "missing", <<>>, "partial")
      [] Seen(file) = "mixed" ->
            IF parses
            THEN Entry("json", "iso", file.blocks[1].payload.ts, "list",
                       file.blocks[2].payload.products, "mixed")
            ELSE Entry("badjson", "missing", 0, "missing", <<>>, "mixed")

\* the term both requests search for
RaceTerm == "kaas"

\* calls started in one behaviour of the concurrent calls
MaxRaceCalls == 3

\* A call running in its thread: the fields of IdleCall, and saw (what the
\* last read of the cache file found), payload (what save_to_cache writes)
\* and closed (the file's count of closes when this call closed it).  pc is
\* also "write1" and "write2": save_to_cache has opened the file and is
\* before its first, its second block.
RaceIdle ==
    [pc |-> "idle", store |-> "ah", term |-> RaceTerm, answer |-> "none",
     readable |-> "none", fetches |-> 0, outcome |-> "none", result |-> NoResult,
     saw |-> "none", payload |-> NoPayload, closed |-> 0]

RaceInit ==
    /\ cache = [k \in Keys |-> NoFile]
    /\ now = 0
    /\ calls = [c \in CallIds |-> RaceIdle]
    /\ ncalls = 0
    /\ nplanted = 0

RaceStart(c, s) ==
    /\ calls[c].pc = "idle"
    /\ ncalls < MaxRaceCalls
    /\ ncalls' = ncalls + 1
    /\ calls' = [calls EXCEPT ![c] = [RaceIdle EXCEPT !.pc = "check", !.store = s]]
    /\ UNCHANGED <<cache, now, nplanted>>
    /\ UNCHANGED <<svars, rest>>

\* should_update_cache reads the file as it is at that moment
RaceCheck(c, variance, parses) ==
    /\ calls[c].pc = "check"
    /\ parses \/ Seen(cache[KeyOf(calls[c])]) = "mixed"
    /\ calls' = [calls EXCEPT ![c] =
          IF should_update_cache(ReadFile(cache[KeyOf(calls[c])], parses), now, variance).value
          THEN [@ EXCEPT !.pc = "fetch", !.answer = "stale",
                         !.saw = Seen(cache[KeyOf(calls[c])])]
          ELSE [@ EXCEPT !.pc = "load", !.answer = "fresh",
                         !.saw = Seen(cache[KeyOf(calls[c])])]]
    /\ UNCHANGED <<cache, now, ncalls, nplanted>>
    /\ UNCHANGED <<svars, rest>>

\* load_from_cache reads the file again
RaceLoad(c, parses) ==
    /\ calls[c].pc = "load"
    /\ parses \/ Seen(cache[KeyOf(calls[c])]) = "mixed"
    /\ calls' = [calls EXCEPT ![c] =
          IF CacheHit(calls[c].store, load_from_cache(ReadFile(cache[KeyOf(calls[c])], parses)))
          THEN [@ EXCEPT !.pc = "done", !.readable = "yes",
                         !.saw = Seen(cache[KeyOf(calls[c])]),
                         !.result = ReturnList(load_from_cache(
                                        ReadFile(cache[KeyOf(calls[c])], parses))[1])]
          ELSE [@ EXCEPT !.pc = "fetch",
                         !.saw = Seen(cache[KeyOf(calls[c])]),
                         !.readable =
                             IF load_from_cache(ReadFile(cache[KeyOf(calls[c])], parses)) = None
                             THEN "no" ELSE "yes"]]
    /\ UNCHANGED <<cache, now, ncalls, nplanted>>
    /\ UNCHANGED <<svars, rest>>

\* the fetch ends and the cards are extracted; with products to save,
\* save_to_cache builds cache_data and opens the file
RaceFetch(c, outcome, products) ==
    /\ calls[c].pc = "fetch"
    /\ outcome \in FetchOutcomes(calls[c].store)
    /\ products \in PageLists(calls[c].store)
    /\ outcome # "page" => products = <<>>
    /\ IF outcome = "page" /\ ShouldSave(calls[c].store, products)
       THEN /\ calls' = [calls EXCEPT ![c] =
                  [@ EXCEPT !.pc = "write1", !.fetches = @ + 1, !.outcome = outcome,
                            !.payload = Payload(c, now, products)]]
            /\ cache' = [cache EXCEPT ![KeyOf(calls[c])] = Truncated(@)]
       ELSE /\ calls' = [calls EXCEPT ![c] =
                  [@ EXCEPT !.pc = "done", !.fetches = @ + 1, !.outcome = outcome,
                            !.result = AfterFetch(calls[c].store, outcome, products)]]
            /\ cache' = cache
    /\ UNCHANGED <<now, ncalls, nplanted>>
    /\ UNCHANGED <<svars, rest>>

\* json.dump writes the next block; after the last one the file is closed
\* and the call returns its products
RaceWrite(c) ==
    /\ calls[c].pc \in {"write1", "write2"}
    /\ IF calls[c].pc = "write1"
       THEN /\ cache' = [cache EXCEPT ![KeyOf(calls[c])] =
                             WriteAt(@, 1, Block(calls[c].payload, 1))]
            /\ calls' = [calls EXCEPT ![c].pc = "write2"]
       ELSE /\ cache' = [cache EXCEPT ![KeyOf(calls[c])] =
                             [WriteAt(@, 2, Block(calls[c].payload, 2))
                                 EXCEPT !.closes = @ + 1]]
            /\ calls' = [calls EXCEPT ![c] =
                  [@ EXCEPT !.pc = "done",
                            !.closed = cache[KeyOf(calls[c])].closes + 1,
                            !.result = AfterFetch(calls[c].store, "page",
                                                  calls[c].payload.products)]]
    /\ UNCHANGED <<now, ncalls, nplanted>>
    /\ UNCHANGED <<svars, rest>>

RaceReturn(c) ==
    /\ calls[c].pc = "done"
    /\ calls' = [calls EXCEPT ![c] = RaceIdle]
    /\ UNCHANGED <<cache, now, ncalls, nplanted>>
    /\ UNCHANGED <<svars, rest>>

RaceNext ==
    \/ \E c \in CallIds, s \in StoreNames : RaceStart(c, s)
    \/ \E c \in CallIds, variance \in Jitters, parses \in BOOLEAN :
          RaceCheck(c, variance, parses)
    \/ \E c \in CallIds, parses \in BOOLEAN : RaceLoad(c, parses)
    \/ \E c \in CallIds, outcome \in {"fail", "nocontent", "extract_error", "page"} :
          \E products \in UNION {PageLists(s) : s \in StoreNames} :
              RaceFetch(c, outcome, products)
    \/ \E c \in CallIds : RaceWrite(c)
    \/ \E c \in CallIds : RaceReturn(c)
    \/ Tick

(***************************************************************************)
(* get_cache_file and the get-products calls over the file names it gives  *)
(***************************************************************************)
\* a file name without the scraper's prefix
get_cache_fileNoPrefix(store, term) ==
    [prefix |-> "cache", slug |-> Replace(Lower(term), " ", <<"_">>)]

\* get_cache_file: CACHE_DIR / f"<prefix>_{term.lower().replace(' ', '_')}_cache.json"
get_cache_file(store, term) ==
    [prefix |-> store, slug |-> Replace(Lower(term), " ", <<"_">>)]

\* the search terms tried
SlugTerms ==
    {<<"k", "a", "a", "s">>, <<"K", "a", "a", "s">>, <<"v", "e", "r", "s", "e", " ", "m", "e", "l", "k">>,
     <<"v", "e", "r", "s", "e", "_", "m", "e", "l", "k">>, <<"a", "/", "b">>}

FileNames == {get_cache_file(s, t) : s \in StoreNames, t \in SlugTerms}

\* open(cache_file, 'w') of save_to_cache succeeds: a name with a '/' lies in
\* a directory that CACHE_DIR.mkdir does not create, and open raises
Writable(file) == ~Contains(file.slug, <<"/">>)

\* calls started in one behaviour over the file names
MaxSlugCalls == 2

\* a cache file with the term of the call that wrote it
Written(entry, term) == [entry |-> entry, by |-> term]

SlugIdle ==
    [pc |-> "idle", store |-> "ah", term |-> <<>>, answer |-> "none",
     result |-> NoResult, from |-> <<>>]

SlugInit ==
    /\ cache = [f \in FileNames |-> Written(Absent, <<>>)]
    /\ now = 0
    /\ calls = [c \in Sequential |-> SlugIdle]
    /\ ncalls = 0
    /\ nplanted = 0

FileOf(call) == get_cache_file(call.store, call.term)

SlugStart(c, s, t) ==
    /\ calls[c].pc = "idle"
    /\ ncalls < MaxSlugCalls
    /\ ncalls' = ncalls + 1
    /\ calls' = [calls EXCEPT ![c] = [SlugIdle EXCEPT !.pc = "check",
                                                      !.store = s, !.term = t]]
    /\ UNCHANGED <<cache, now, nplanted>>
    /\ UNCHANGED <<svars, rest>>

\* `if not should_update_cache(cache_file)`
SlugCheck(c, variance) ==
    /\ calls[c].pc = "check"
    /\ calls' = [calls EXCEPT ![c] =
          IF should_update_cache(cache[FileOf(calls[c])].entry, now, variance).value
          THEN [@ EXCEPT !.pc = "fetch", !.answer = "stale"]
          ELSE [@ EXCEPT !.pc = "load", !.answer = "fresh"]]
    /\ UNCHANGED <<cache, now, ncalls, nplanted>>
    /\ UNCHANGED <<svars, rest>>

\* load_from_cache and the test on what it returns; from is the term of
\* the call that wrote what is returned
SlugLoad(c) ==
    /\ calls[c].pc = "load"
    /\ calls' = [calls EXCEPT ![c] =
          IF CacheHit(calls[c].store, load_from_cache(cache[FileOf(calls[c])].entry))
          THEN [@ EXCEPT !.pc = "done",
                         !.from = cache[FileOf(calls[c])].by,
                         !.result = ReturnList(
                             load_from_cache(cache[FileOf(calls[c])].entry)[1])]
          ELSE [@ EXCEPT !.pc = "fetch"]]
    /\ UNCHANGED <<cache, now, ncalls, nplanted>>
    /\ UNCHANGED <<svars, rest>>

\* the fetch ends; extraction, save_to_cache (which logs and swallows the
\* exception of a failed open, lines 64-65) and the return follow
SlugFetch(c, outcome, products) ==
    /\ calls[c].pc = "fetch"
    /\ outcome \in FetchOutcomes(calls[c].store)
    /\ products \in PageLists(calls[c].store)
    /\ outcome # "page" => products = <<>>
    /\ calls' = [calls EXCEPT ![c] =
          [@ EXCEPT !.pc = "done", !.from = calls[c].term,
                    !.result = AfterFetch(calls[c].store, outcome, products)]]
    /\ cache' = IF /\ outcome = "page"
                   /\ ShouldSave(calls[c].store, products)
                   /\ Writable(FileOf(calls[c]))
                THEN [cache EXCEPT ![FileOf(calls[c])] =
                         Written(save_to_cache(products, now), calls[c].term)]
                ELSE cache
    /\ UNCHANGED <<now, ncalls, nplanted>>
    /\ UNCHANGED <<svars, rest>>

SlugReturn(c) ==
    /\ calls[c].pc = "done"
    /\ calls' = [calls EXCEPT ![c] = SlugIdle]
    /\ UNCHANGED <<cache, now, ncalls, nplanted>>
    /\ UNCHANGED <<svars, rest>>

SlugNext ==
    \/ \E c \in Sequential, s \in StoreNames, t \in SlugTerms : SlugStart(c, s, t)
    \/ \E c \in Sequential, variance \in Jitters : SlugCheck(c, variance)
    \/ \E c \in Sequential : SlugLoad(c)
    \/ \E c \in Sequential, outcome \in {"fail", "nocontent", "extract_error", "page"} :
          \E products \in UNION {PageLists(s) : s \in StoreNames} :
              SlugFetch(c, outcome, products)
    \/ \E c \in Sequential : SlugReturn(c)
    \/ Tick

(***************************************************************************)
(* Specifications                                                          *)
(***************************************************************************)
vars == <<svars, cvars, rest>>

Init == SearchInit /\ CacheInit /\ ExtractInit /\ UnitIdle /\ ListInit

\* the search handler, its tasks' outcomes drawn from SourceLists
Spec == Init /\ [][SearchNext]_vars

\* the get-products calls of the three scrapers over the cache directory
CacheSpec == Init /\ [][CacheNext]_vars

\* the search handler when every task ends and the event loop runs what is
\* ready: a pending task returns or raises, and gather then resumes the
\* handler
TaskEnds ==
    \/ \E s \in StoreNames : \E items \in SourceLists(s) : TaskReturns(s, items)
    \/ \E s \in StoreNames : TaskRaises(s)

\* SearchRespond as seen on spc: gather has every result and the handler goes
\* on. Every step of Spec that changes spc this way is a SearchRespond step,
\* and the two are enabled in the same states.
GatherReturns ==
    /\ spc = "gather"
    /\ \A s \in stores : results[s] # Pending
    /\ spc' = "responded"

LiveSpec == Spec /\ WF_vars(TaskEnds) /\ WF_spc(GatherReturns)

\* one run of an extractor over a document drawn from Documents
ExtractSpec == Init /\ [][ExtractNext]_vars

\* one routine applied to an input drawn from UnitInputs
UnitSpecInit == SearchInit /\ CacheInit /\ ExtractInit /\ UnitInit /\ ListInit

UnitSpec == UnitSpecInit /\ [][UnitNext]_vars

FormatSpecInit == SearchInit /\ CacheInit /\ ExtractInit /\ FormatInit /\ ListInit

\* format_price applied once and twice to an input drawn from FormatInputs
FormatSpec == FormatSpecInit /\ [][FormatNext]_vars

\* the list routes, requests drawn from ItemInputs and ProductInputs
ListSpec == Init /\ [][ListNext]_vars

RaceSpecInit == SearchInit /\ RaceInit /\ ExtractInit /\ UnitIdle /\ ListInit

\* get-products calls of two requests running in two threads
RaceSpec == RaceSpecInit /\ [][RaceNext]_vars

SlugSpecInit == SearchInit /\ SlugInit /\ ExtractInit /\ UnitIdle /\ ListInit

\* get-products calls, one after the other, for search terms as typed
SlugSpec == SlugSpecInit /\ [][SlugNext]_vars

(***************************************************************************)
(* Claims about the cache and the get-products calls                       *)
(***************************************************************************)
\* the cache file the call works on
EntryOf(c) == cache[KeyOf(calls[c])]

\* the staleness check can read the entry: JSON with an ISO timestamp
ReadableEntry(entry) == entry.kind = "json" /\ entry.tsKind = "iso"

\* call c takes its should_update_cache step
Checks(c) == calls[c].pc = "check" /\ calls'[c].pc # "check"

\* call c takes its load_from_cache step
Loads(c) == calls[c].pc = "load" /\ calls'[c].pc # "load"

\* call c takes the step in which its fetch ends
Fetched(c) == calls[c].pc = "fetch" /\ calls'[c].pc = "done"

\* C6: on a readable entry the staleness check never answers fresh when the
\* entry is older than CACHE_DURATION + CACHE_DURATION_VARIANCE and never
\* answers stale when it is younger than CACHE_DURATION -
\* CACHE_DURATION_VARIANCE, whatever jitter is drawn.
C6_StalenessBounds ==
    [][\A c \in CallIds :
         (Checks(c) /\ ReadableEntry(EntryOf(c))) =>
            /\ now - EntryOf(c).ts > CACHE_DURATION + CACHE_DURATION_VARIANCE
                  => calls'[c].answer = "stale"
            /\ now - EntryOf(c).ts < CACHE_DURATION - CACHE_DURATION_VARIANCE
                  => calls'[c].answer = "fresh"]_vars

\* a check has answered stale on a readable entry older than 16 hours, after
\* an earlier call was served from it
C6_Witness ==
    \E c \in CallIds :
        /\ calls[c].pc = "fetch"
        /\ calls[c].answer = "stale"
        /\ ReadableEntry(EntryOf(c))
        /\ EntryOf(c).writer = "pipeline"
        /\ now - EntryOf(c).ts > CACHE_DURATION + CACHE_DURATION_VARIANCE

\* no file, invalid JSON, or a missing or malformed timestamp
CorruptEntry(entry) == entry.kind # "json" \/ entry.tsKind # "iso"

\* no file, invalid JSON, or a product list that cannot be read
UnreadableList(entry) == entry.kind # "json" \/ entry.pKind = "null"

\* C7: an absent, unreadable or corrupt cache entry is a cache miss: the
\* call goes on to its fetch and nothing is raised because of the cache,
\* also when the entry becomes unreadable between the check and the read.
C7_CorruptIsMiss ==
    [][\A c \in CallIds :
         /\ (Checks(c) /\ CorruptEntry(EntryOf(c)))
               => calls'[c].pc = "fetch" /\ calls'[c].result = NoResult
         /\ (Loads(c) /\ UnreadableList(EntryOf(c)))
               => calls'[c].pc = "fetch" /\ calls'[c].result = NoResult]_vars

\* the check answered fresh, the read then found the entry unreadable, and
\* the call is about to fetch
C7_Witness ==
    \E c \in CallIds :
        /\ calls[c].pc = "fetch"
        /\ calls[c].answer = "fresh"
        /\ calls[c].readable = "no"

\* C8: no cache entry written by the pipeline holds an empty product list,
\* and a call that extracted zero products leaves the cache as it was.
C8_EmptyNeverCached ==
    [][/\ \A k \in Keys :
             cache'[k].writer = "pipeline" =>
                cache'[k].pKind = "list" /\ cache'[k].products # <<>>
       /\ \A c \in CallIds :
             (Fetched(c) /\ calls'[c].result.items = <<>>) => cache' = cache]_vars

\* a call has extracted zero products from its page and the entry an
\* earlier call wrote for that key is still there
C8_Witness ==
    \E c \in CallIds :
        /\ calls[c].pc = "done"
        /\ calls[c].outcome = "page"
        /\ calls[c].result = ReturnList(<<>>)
        /\ EntryOf(c).writer = "pipeline"
        /\ EntryOf(c).products # <<>>

\* C9: a call whose fetch failed or timed out, or whose extraction failed as
\* a whole, ends by raising, never by returning a list.
C9_FailureIsRaised ==
    \A c \in CallIds :
        (calls[c].pc = "done" /\ calls[c].outcome \in {"fail", "extract_error"})
            => calls[c].result.kind = "raise"

Emitted == {xout[i] : i \in 1..Len(xout)}

\* C11: every product of a list an extractor returns has a name and a price
\* strictly greater than 0.
C11_NameAndPositivePrice ==
    xstate = "done" =>
        \A item \in Emitted :
            /\ item.name # None
            /\ item.price # None /\ item.price[1] > 0

\* C12: every product emitted with the promotional flag set has an
\* original price, and it is strictly greater than the price.
C12_PromotionalHasHigherOriginal ==
    \A item \in Emitted :
        item.is_promotional =>
            item.original_price # None /\ item.original_price[1] > item.price[1]

\* C13: for every emitted product the price-per-unit kind is set if and
\* only if the price-per-unit value is set.
C13_UnitIffValue ==
    \A item \in Emitted :
        (item.price_per_unit_unit # None) <=> (item.price_per_unit_value # None)

\* a returned list holds a product with both set and a product with neither
C13_Witness ==
    /\ xstate = "done"
    /\ \E item \in Emitted :
          item.price_per_unit_unit # None /\ item.price_per_unit_value # None
    /\ \E item \in Emitted :
          item.price_per_unit_unit = None /\ item.price_per_unit_value = None

(***************************************************************************)
(* Claims on the unit routines (UnitSpec)                                  *)
(***************************************************************************)
\* pairs of unit texts of the same weight, one in grams and one in
\* kilograms, with the weight in grams
SameWeight ==
    {[gram |-> <<"4", "0", "0", "g">>, kilo |-> <<"0", ".", "4", "k", "g">>, grams |-> 400],
     [gram |-> <<"1", "0", "0", "0", " ", "g">>, kilo |-> <<"1", " ", "k", "g">>, grams |-> 1000],
     [gram |-> <<"1", "5", "0", "0", "g">>, kilo |-> <<"1", ".", "5", "k", "g">>, grams |-> 1500],
     [gram |-> <<"1", "0", "0", "0", "g">>, kilo |-> <<"1", "k", "g">>, grams |-> 1000]}

Normalizers == {"ah.unit_size", "jumbo.extract_unit_size", "plus.extract_unit_size"}

\* C14: each source's unit-size normalisation gives a gram text and a
\* kilogram text of the same weight the same canonical value, the weight as
\* an integer number of grams followed by 'g'.
C14_GramKiloEquivalence ==
    ures.routine \in Normalizers =>
        \A pair \in SameWeight :
            uin.unit \in {Some(pair.gram), Some(pair.kilo)} =>
                ures.out = IntText(pair.grams) \o T_g

\* a canonical weight unit '<G>g' with G > 0
IsCanonicalGrams(unit) ==
    /\ unit # None
    /\ Len(unit[1]) >= 2
    /\ unit[1][Len(unit[1])] = "g"
    /\ IsDigitText(SubSeq(unit[1], 1, Len(unit[1]) - 1))
    /\ ToInt(SubSeq(unit[1], 1, Len(unit[1]) - 1)) > 0

CanonicalGrams(unit) == ToInt(SubSeq(unit[1], 1, Len(unit[1]) - 1))

\* a count unit '<n> stuk' with n > 0
IsCanonicalCount(unit) ==
    /\ unit # None
    /\ Len(unit[1]) >= 6
    /\ SubSeq(unit[1], Len(unit[1]) - 4, Len(unit[1])) = <<" ", "s", "t", "u", "k">>
    /\ IsDigitText(SubSeq(unit[1], 1, Len(unit[1]) - 5))
    /\ ToInt(SubSeq(unit[1], 1, Len(unit[1]) - 5)) > 0

CanonicalCount(unit) == ToInt(SubSeq(unit[1], 1, Len(unit[1]) - 5))

\* equal rationals
SameNumber(a, b) == a[2] # 0 /\ b[2] # 0 /\ a[1] * b[2] = b[1] * a[2]

\* C15: every derivation routine gives price / G * 1000 per kilogram for a
\* canonical weight unit '<G>g', price / n per piece for a count unit
\* '<n> stuk', and no result for an absent unit.  For the sort value of
\* app.calculate_price_per_unit "no result" is float('inf'), for
\* plus_scraper.calculate_price_per_unit the pair (None, None), for
\* app.format_price_per_unit the empty text.
C15_DerivationLaw ==
    /\ ures.routine = "app.calculate_price_per_unit" =>
          /\ IsCanonicalGrams(uin.unit) =>
                SameNumber(ures.out, <<uin.price[1] * 1000, CanonicalGrams(uin.unit)>>)
          /\ IsCanonicalCount(uin.unit) =>
                SameNumber(ures.out, <<uin.price[1], CanonicalCount(uin.unit)>>)
          /\ uin.unit = None => ures.out = Inf
    /\ ures.routine = "plus.calculate_price_per_unit" =>
          /\ IsCanonicalGrams(uin.unit) =>
                /\ ures.out # None
                /\ ures.out[1].unit = T_kilo
                /\ SameNumber(ures.out[1].value,
                              <<uin.price[1] * 1000, CanonicalGrams(uin.unit)>>)
          /\ IsCanonicalCount(uin.unit) =>
                /\ ures.out # None
                /\ ures.out[1].unit = T_stuk
                /\ SameNumber(ures.out[1].value,
                              <<uin.price[1], CanonicalCount(uin.unit)>>)
          /\ uin.unit = None => ures.out = None
    /\ (ures.routine = "app.format_price_per_unit"
        /\ uin.price # None /\ uin.price # Some(0)) =>
          /\ IsCanonicalGrams(uin.unit) =>
                ures.out = app_euro(uin.price[1] * 1000, CanonicalGrams(uin.unit), <<"/", "k", "g">>)
          /\ IsCanonicalCount(uin.unit) =>
                ures.out = app_euro(uin.price[1], CanonicalCount(uin.unit), <<"/", "s", "t", "u", "k">>)
          /\ uin.unit = None => ures.out = <<>>

\* the multipack unit sizes 'NxMg': N packs of M grams
Multipacks ==
    {[text |-> <<"6", "x", "5", "0", "0", "g">>, n |-> 6, m |-> 500],
     [text |-> <<"4", "x", "1", "2", "5", "g">>, n |-> 4, m |-> 125]}

\* C20: for a multipack 'NxMg', format_price_per_unit gives the price per
\* kilogram over N*M grams and format_unit_size keeps the multiplier
\* ('6x500g' gives '6x500 g').
C20_MultipackTotalWeight ==
    \A pack \in Multipacks :
        uin.unit = Some(pack.text) =>
            /\ (ures.routine = "app.format_price_per_unit"
                /\ uin.price # None /\ uin.price # Some(0)) =>
                  ures.out = app_euro(uin.price[1] * 1000, pack.n * pack.m, <<"/", "k", "g">>)
            /\ ures.routine = "app.format_unit_size" =>
                  ures.out = Text(IntText(pack.n) \o <<"x">> \o IntText(pack.m) \o <<" ", "g">>)

(***************************************************************************)
(* Claims on the list routes (ListSpec)                                    *)
(***************************************************************************)
NoDuplicates(list) ==
    \A i, j \in 1..Len(list) : list[i] = list[j] => i = j

\* the step that has just answered is a request of this route
Answers(route) == reply'.route = route

\* C16: grocery_list never holds an item twice; add_item of an item that is
\* already in the list leaves the list unchanged and answers success.
C16_NoDuplicates ==
    /\ NoDuplicates(grocery_list)
    /\ [][/\ NoDuplicates(grocery_list')
          /\ \A x \in Items :
                (Answers("add_item") /\ reply'.item = Some(x)
                 /\ InList(grocery_list, x)) =>
                    /\ grocery_list' = grocery_list
                    /\ reply'.status = 200 /\ reply'.success]_vars

\* add_item("melk") has answered and "melk" stands before a later item: the
\* request found it in the list
C16_Witness ==
    /\ reply.route = "add_item" /\ reply.item = Some("melk")
    /\ grocery_list = <<"melk", "brood">>

\* C17: add_item with an empty or missing item and remove_item with a
\* missing item are answered with status 400.
C17_BadInputRejected ==
    (\/ reply.route = "add_item" /\ ~Truthy(reply.item)
     \/ reply.route = "remove_item" /\ reply.item = None)
        => reply.status = 400

\* the list without x, the other items in their order
Others(list, x) == SelectSeq(list, LAMBDA y : y # x)

\* C18: remove_item(x) with x in the list leaves x in neither grocery_list
\* nor selected_products and every other item and selection as it was;
\* with x not in the list it answers success and leaves the list unchanged.
C18_RemoveItem ==
    [][\A x \in Items :
          (Answers("remove_item") /\ reply'.item = Some(x)) =>
              IF InList(grocery_list, x)
              THEN /\ ~InList(grocery_list', x)
                   /\ x \notin DOMAIN selected_products'
                   /\ grocery_list' = Others(grocery_list, x)
                   /\ DOMAIN selected_products' = DOMAIN selected_products \ {x}
                   /\ \A k \in DOMAIN selected_products' :
                         selected_products'[k] = selected_products[k]
                   /\ reply'.status = 200 /\ reply'.success
              ELSE /\ grocery_list' = grocery_list
                   /\ reply'.status = 200 /\ reply'.success]_vars

\* remove_item("melk") has answered, "melk" is gone and "brood" keeps its
\* place and its selection
C18_Witness ==
    /\ reply.route = "remove_item" /\ reply.item = Some("melk")
    /\ grocery_list = <<"brood">>
    /\ DOMAIN selected_products = {"brood"}

\* C19: clear_list leaves grocery_list and selected_products empty and
\* answers success; on an empty list it leaves the list as it was, and after
\* a clear_list (both already empty) it changes nothing.
C19_ClearList ==
    [][Answers("clear_list") =>
          /\ grocery_list' = <<>>
          /\ selected_products' = EmptyDict
          /\ reply'.status = 200 /\ reply'.success
          /\ grocery_list = <<>> => grocery_list' = grocery_list
          /\ (grocery_list = <<>> /\ selected_products = EmptyDict) =>
                UNCHANGED <<grocery_list, selected_products>>]_vars

\* clear_list has answered and both are empty
C19_Witness ==
    /\ reply.route = "clear_list" /\ reply.status = 200
    /\ grocery_list = <<>>
    /\ selected_products = EmptyDict

(***************************************************************************)
(* Claims on format_price (FormatSpec)                                     *)
(***************************************************************************)
\* a text of digits, a comma and exactly two digits, with an optional sign
TwoDecimals(t) ==
    /\ Len(t) >= 4
    /\ t[Len(t) - 2] = ","
    /\ t[Len(t) - 1] \in Digit /\ t[Len(t)] \in Digit
    /\ \/ IsDigitText(SubSeq(t, 1, Len(t) - 3))
       \/ t[1] = "-" /\ IsDigitText(SubSeq(t, 2, Len(t) - 3))

\* the input is None or a text that float rejects
Unparsable(price) ==
    \/ price.kind = "none"
    \/ price.kind = "str" /\ price_float(price.text) = None

\* C21: format_price returns, for every input, a text with exactly two
\* decimals and a comma, '0,00' for None and for an unparsable text, and
\* format_price(format_price(x)) = format_price(x).
C21_TotalIdempotent ==
    /\ ures.routine = "app.format_price" =>
          /\ TwoDecimals(ures.out)
          /\ Unparsable(uin.price) => ures.out = <<"0", ",", "0", "0">>
    /\ ures.routine = "app.format_price twice" => ures.out[2] = ures.out[1]

(***************************************************************************)
(* Claims on the join of search_products (LiveSpec)                        *)
(***************************************************************************)
\* the stores of the products of a list
StoresOf(list) == {list[i].store : i \in 1..Len(list)}

\* C23: every requested source is started before any result is processed,
\* the response is produced only when every requested source has returned
\* or failed, a source that failed (a timeout raises) contributes no
\* product, and when every task ends the search responds.
C23_JoinSemantics ==
    /\ [][(spc = "idle" /\ spc' = "gather") =>
             /\ \A s \in stores' : results'[s] = Pending
             /\ merged' = <<>> /\ response' = None]_vars
    /\ [](spc = "responded" =>
             /\ \A s \in stores : results[s].kind \in {"list", "exc"}
             /\ \A s \in stores : results[s] = Raised => s \notin StoresOf(merged))
    /\ (spc = "gather" ~> spc = "responded")

\* the response to a request for all three stores, one of which failed
\* while another returned products
C23_Witness ==
    /\ spc = "responded"
    /\ stores = StoreNames
    /\ results["ah"] = Raised
    /\ results["jumbo"].kind = "list" /\ results["jumbo"].items # <<>>
    /\ StoresOf(merged) = {"jumbo"}

(***************************************************************************)
(* Claims about concurrent get-products calls                              *)
(***************************************************************************)
Writing(k) ==
    \E c \in CallIds : calls[c].pc \in {"write1", "write2"} /\ KeyOf(calls[c]) = k

\* C22: when two concurrent calls for the same source and term both found
\* the cache stale, fetched and wrote, the cache file is exactly the complete
\* payload of the write that finished later; no file that no call is writing
\* holds a part of a payload or blocks of two payloads; and no staleness
\* check or load reads a partially written or mixed file.
C22_BenignRace ==
    /\ \A k \in Keys : ~Writing(k) => Seen(cache[k]) \in {"absent", "whole"}
    /\ \A c \in CallIds : calls[c].saw \notin {"partial", "mixed"}
    /\ \A c, d \in CallIds :
          (/\ calls[c].pc = "done" /\ calls[d].pc = "done"
           /\ KeyOf(calls[c]) = KeyOf(calls[d])
           /\ calls[c].answer = "stale" /\ calls[d].answer = "stale"
           /\ calls[c].closed > calls[d].closed /\ calls[d].closed > 0)
          => /\ Seen(cache[KeyOf(calls[c])]) = "whole"
             /\ cache[KeyOf(calls[c])].blocks[1].payload = calls[c].payload

(***************************************************************************)
(* Claims about a failing card                                             *)
(***************************************************************************)
\* processing of the card does not end with a product
CardFails(store, card) == card_outcome(store, card).kind # "product"

Count(list, item) == Cardinality({i \in 1..Len(list) : list[i] = item})

SameItems(a, b) ==
    /\ Len(a) = Len(b)
    /\ \A i \in 1..Len(a) : Count(a, a[i]) = Count(b, a[i])

\* C24: for each of the three extractors, a card whose processing fails
\* leaves the products extracted so far in place and the loop running, a
\* valid card adds its product, and the call returns the products of all
\* the valid cards of the document.
C24_CardFailureIsLocal ==
    [][/\ (xstate = "run" /\ xcards # <<>> /\ CardFails(xstore, Head(xcards)))
          => (xstate' = "run" /\ xout' = xout)
       /\ (xstate = "run" /\ xcards # <<>> /\ ~CardFails(xstore, Head(xcards)))
          => (xstate' = "run"
              /\ xout' = Append(xout, card_outcome(xstore, Head(xcards)).item))
       /\ (xstate = "run" /\ xcards = <<>>)
          => (xstate' = "done" /\ SameItems(xout', xout))]_vars

(***************************************************************************)
(* Claims about the bread-size shorthand                                   *)
(***************************************************************************)
\* texts with 'half' or 'heel': without a numeric quantity the shorthand
\* weight is expected, with one the quantity itself
BreadTexts ==
    {[text |-> <<"h", "a", "l", "f">>, explicit |-> FALSE, expected |-> <<"4", "0", "0", "g">>],
     [text |-> <<"w", "i", "t", " ", "h", "e", "e", "l">>, explicit |-> FALSE, expected |-> <<"8", "0", "0", "g">>],
     [text |-> <<"h", "a", "l", "f", " ", "5", "0", "0", "g">>, explicit |-> TRUE, expected |-> <<"5", "0", "0", "g">>]}

BreadRoutines == {"jumbo.extract_unit_size", "plus.extract_unit_size"}

\* C25: in the unit-size extraction of jumbo and of plus, a text with an
\* explicit quantity and unit gives that quantity even when it also holds
\* 'half' or 'heel'; without an explicit quantity 'half' gives 400g and
\* 'heel' gives 800g.
C25_BreadShorthandIsFallback ==
    ures.routine \in BreadRoutines =>
        \A b \in BreadTexts :
            uin.unit = Some(b.text) => ures.out = b.expected

\* the age of a whole cache file
Age(file) == now - file.blocks[1].payload.ts

\* the file of the call's key is whole and its age lies strictly between
\* the base duration minus and plus the variance
InJitterWindow(c) ==
    /\ Seen(cache[KeyOf(calls[c])]) = "whole"
    /\ Age(cache[KeyOf(calls[c])]) > CACHE_DURATION - CACHE_DURATION_VARIANCE
    /\ Age(cache[KeyOf(calls[c])]) < CACHE_DURATION + CACHE_DURATION_VARIANCE

CanAnswer(c, value) ==
    \E variance \in Jitters, parses \in BOOLEAN :
        should_update_cache(ReadFile(cache[KeyOf(calls[c])], parses), now, variance).value = value

\* C26: a staleness check of a readable entry whose age lies strictly inside
\* the jitter window can answer stale and can answer fresh, whatever earlier
\* checks of the same entry answered, and the check leaves the entry as it
\* is: the jitter it drew is stored nowhere.
C26_JitterPerCheck ==
    [][\A c \in CallIds :
          /\ (calls[c].pc = "check" /\ InJitterWindow(c))
                => (CanAnswer(c, TRUE) /\ CanAnswer(c, FALSE))
          /\ (calls[c].pc = "check" /\ calls'[c].pc # "check")
                => /\ cache' = cache
                   /\ calls'[c].answer \in {"stale", "fresh"}
                   /\ CanAnswer(c, calls'[c].answer = "stale")]_vars

\* C26 witness: two checks of the same unmodified entry, twelve hours old,
\* one answered stale and the other fresh
C26_Witness ==
    /\ calls["c1"].pc = "fetch" /\ calls["c1"].answer = "stale"
    /\ calls["c2"].pc = "load" /\ calls["c2"].answer = "fresh"
    /\ calls["c1"].saw = "whole" /\ calls["c2"].saw = "whole"
    /\ KeyOf(calls["c1"]) = KeyOf(calls["c2"])
    /\ InJitterWindow("c1")
    /\ cache[KeyOf(calls["c1"])].closes = 1

(***************************************************************************)
(* Claims about the cache keys                                             *)
(***************************************************************************)
\* C27: a get-products call for source S and term T leaves unchanged the
\* cache entry of every other source and of every other term, and what it
\* returns from the cache was written by a call for the same term.
C27_KeyIsolation ==
    [][\A c \in Sequential :
          /\ calls[c].pc # "idle" =>
                \A s \in StoreNames, t \in SlugTerms :
                    (s # calls[c].store \/ t # calls[c].term)
                        => cache'[get_cache_file(s, t)] = cache[get_cache_file(s, t)]
          /\ (calls[c].pc = "load" /\ calls'[c].pc = "done")
                => calls'[c].from = calls[c].term]_vars

\* the term lowercased, with '_' for every blank
Slug(t) == Replace(Lower(t), " ", <<"_">>)

\* C27, amended: a get-products call for source S and term T leaves
\* unchanged the cache entry of every other source and of every term whose
\* lowercased, underscored form differs from T's, and what it returns from
\* the cache was written by a call for a term of the same form; terms of the
\* same form share one entry.
C27_KeyIsolationBySlug ==
    [][\A c \in Sequential :
          /\ calls[c].pc # "idle" =>
                \A s \in StoreNames, t \in SlugTerms :
                    (s # calls[c].store \/ Slug(t) # Slug(calls[c].term))
                        => cache'[get_cache_file(s, t)] = cache[get_cache_file(s, t)]
          /\ (calls[c].pc = "load" /\ calls'[c].pc = "done")
                => Slug(calls'[c].from) = Slug(calls[c].term)]_vars

\* C27 witness: a call for one term has returned from the cache what a call
\* for another term of the same form wrote, while the entries of the other
\* sources and of the terms of another form are still absent
C27_Witness ==
    /\ calls["c1"].pc = "done"
    /\ calls["c1"].answer = "fresh"
    /\ calls["c1"].result.kind = "list" /\ calls["c1"].result.items # <<>>
    /\ calls["c1"].from # calls["c1"].term
    /\ \A s \in StoreNames, t \in SlugTerms :
          (s # calls["c1"].store \/ Slug(t) # Slug(calls["c1"].term))
              => cache[get_cache_file(s, t)].entry = Absent

\* C28: for each source, a call that returns a freshly extracted non-empty
\* list L has overwritten the cache entry of its key with exactly L and the
\* time of the write, and a call whose staleness check answers fresh returns
\* exactly the list of the entry.
C28_WriteThrough ==
    [][\A c \in Sequential :
          /\ (/\ calls[c].pc = "fetch" /\ calls'[c].pc = "done"
              /\ calls'[c].result.kind = "list" /\ calls'[c].result.items # <<>>)
                => cache'[FileOf(calls[c])].entry
                       = save_to_cache(calls'[c].result.items, now)
          /\ (calls[c].pc = "load" /\ calls'[c].pc = "done")
                => /\ calls'[c].result.kind = "list"
                   /\ calls'[c].result.items = cache[FileOf(calls[c])].entry.products]_vars

\* the call's refresh did not succeed: the fetch failed or timed out, nothing
\* was extracted, or the page held no product
RefreshFailed(call) == call.outcome # "page" \/ call.result.items = <<>>

\* C29: when the fetch of a get-products call fails, times out or yields no
\* product, the call leaves every cache entry as it was, and it raises or
\* returns the empty list: the list of the stale entry is not its result.
C29_FailedRefreshKeepsCache ==
    [][\A c \in Sequential :
          (calls[c].pc = "fetch" /\ calls'[c].pc = "done" /\ RefreshFailed(calls'[c]))
              => /\ cache' = cache
                 /\ calls'[c].result \in {Raise("fetch"), ReturnList(<<>>)}]_vars

\* C29 witness: a call found an entry with products stale, its fetch failed,
\* and the entry is still there
C29_Witness ==
    /\ calls["c1"].pc = "done"
    /\ calls["c1"].answer = "stale"
    /\ calls["c1"].outcome = "fail"
    /\ cache[KeyOf(calls["c1"])].kind = "json"
    /\ cache[KeyOf(calls["c1"])].writer = "pipeline"
    /\ cache[KeyOf(calls["c1"])].products # <<>>
    /\ calls["c1"].result.items = <<>>

\* C30: after any sequence of add_item, remove_item, clear_list,
\* select_product and delete_product requests, every key of
\* selected_products is an item of grocery_list.
C30_SelectionsFollowList ==
    \A item \in DOMAIN selected_products : InList(grocery_list, item)

====
